---------------------------- MODULE Spec2Model ----------------------------
(***************************************************************************)
(* Verification model of ownfoil-rs: the periodic library rescan that      *)
(* swaps the shared Catalog behind a tokio RwLock (main.rs, scanner.rs,    *)
(* catalog.rs, http/handlers.rs), path sanitation and range-aware file     *)
(* streaming (serve_files.rs).                                             *)
(*                                                                         *)
(* Strings are sequences of one-character strings.  Rust's 0-based Vec     *)
(* positions are written 1-based here (position p here is index p-1).      *)
(***************************************************************************)
EXTENDS Integers, Sequences, FiniteSets

VARIABLES
    walk,       \* what the directory walk of the rescan in flight came back with
    scanner,    \* the background scanner loop and the rescan task it spawned
    catalog,    \* the shared Catalog value inside Arc<RwLock<Catalog>>
    gen,        \* history: which rescan wrote each field of the shared Catalog
    lock,       \* the RwLock: write guard held, set of read-guard holders
    rpc,        \* position of every HTTP reader
    seen,       \* what every HTTP reader has copied under its read guard
    path_req,   \* sanitize_relative_path: requested path, result
    dl,         \* stream_with_range_support: request and response
    api,        \* a request to an endpoint guarded by ensure_authorized
    dreq,       \* a request to the download handler
    meta,       \* a file name and relative path the scanner derives a record from
    lib,        \* a record list given to Catalog::from_files, and a versions query
    shop,       \* a client that lists the shop root and downloads by id
    sect,       \* a shop_sections request and the TitleDb lock it waits on
    item,       \* a catalog record turned into a shop section item
    sess        \* the SessionStore, its clock and the calls in flight on it

vars == <<walk, scanner, catalog, gen, lock, rpc, seen, path_req, dl, api, dreq, meta, lib,
          shop, sect, item, sess>>

(***************************************************************************)
(* Bounds                                                                  *)
(***************************************************************************)
NumFiles == 2
MaxTicks == 2
NumReaders == 2
MaxPathLen == 6
MaxRawLen == 3
MaxFileSize == 4

(***************************************************************************)
(* Characters, strings, Option, Ordering                                   *)
(***************************************************************************)
None == [some |-> FALSE]
Some(v) == [some |-> TRUE, v |-> v]

\* the characters the model uses, in ASCII order; "0xFF" stands for one
\* byte outside visible ASCII
AsciiOrder ==
    << " ", "*", "+", ",", "-", ".", "/",
       "0", "1", "2", "3", "4", "5", "6", "7", "8", "9", "=",
       "A", "B", "C", "D", "E", "F",
       "a", "b", "c", "d", "e", "g", "i", "m", "n", "p", "s", "t", "x", "y",
       "0xFF" >>

Ord(c) == CHOOSE i \in 1..Len(AsciiOrder) : AsciiOrder[i] = c

Digits == <<"0", "1", "2", "3", "4", "5", "6", "7", "8", "9">>

IsDigit(c) == \E i \in 1..10 : Digits[i] = c

DigitVal(c) == (CHOOSE i \in 1..10 : Digits[i] = c) - 1

Range(s) == {s[i] : i \in 1..Len(s)}

Strings(alphabet, maxLen) == UNION {[1..k -> alphabet] : k \in 0..maxLen}

Less == 0 - 1
Equal == 0
Greater == 1

\* Ordering::then
Then(first, second) == IF first # Equal THEN first ELSE second

\* Ord for integers (u32, u64)
CmpInt(a, b) == IF a < b THEN Less ELSE IF a > b THEN Greater ELSE Equal

\* Ord for String: lexicographic by byte
RECURSIVE CmpStr(_, _)
CmpStr(a, b) ==
    IF a = <<>> /\ b = <<>> THEN Equal
    ELSE IF a = <<>> THEN Less
    ELSE IF b = <<>> THEN Greater
    ELSE IF Head(a) # Head(b) THEN CmpInt(Ord(Head(a)), Ord(Head(b)))
    ELSE CmpStr(Tail(a), Tail(b))

\* Ord for Option<String>: None sorts before every Some
CmpOptStr(a, b) ==
    IF ~a.some /\ ~b.some THEN Equal
    ELSE IF ~a.some THEN Less
    ELSE IF ~b.some THEN Greater
    ELSE CmpStr(a.v, b.v)

\* Ord for Option<u32>
CmpOptInt(a, b) ==
    IF ~a.some /\ ~b.some THEN Equal
    ELSE IF ~a.some THEN Less
    ELSE IF ~b.some THEN Greater
    ELSE CmpInt(a.v, b.v)

\* u64::to_string
RECURSIVE ToString(_)
ToString(n) ==
    IF n < 10 THEN <<Digits[n + 1]>>
    ELSE ToString(n \div 10) \o <<Digits[(n % 10) + 1]>>


(***************************************************************************)
(* catalog.rs: ContentFile, classify_title_id, Catalog                     *)
(***************************************************************************)
LowerLetters ==
    << "a", "b", "c", "d", "e", "f", "g", "h", "i", "j", "k", "l", "m",
       "n", "o", "p", "q", "r", "s", "t", "u", "v", "w", "x", "y", "z" >>

UpperLetters ==
    << "A", "B", "C", "D", "E", "F", "G", "H", "I", "J", "K", "L", "M",
       "N", "O", "P", "Q", "R", "S", "T", "U", "V", "W", "X", "Y", "Z" >>

\* char::to_ascii_uppercase
ToAsciiUppercase(c) ==
    IF \E i \in 1..26 : LowerLetters[i] = c
    THEN UpperLetters[CHOOSE i \in 1..26 : LowerLetters[i] = c]
    ELSE c

EndsWith(s, suffix) ==
    /\ Len(s) >= Len(suffix)
    /\ SubSeq(s, Len(s) - Len(suffix) + 1, Len(s)) = suffix

classify_title_id(title_id) ==
    IF ~title_id.some THEN "Unknown"
    ELSE LET normalized == [i \in 1..Len(title_id.v) |-> ToAsciiUppercase(title_id.v[i])]
         IN  IF EndsWith(normalized, <<"0", "0", "0">>) THEN "Base"
             ELSE IF EndsWith(normalized, <<"8", "0", "0">>) THEN "Update"
             ELSE "Dlc"

\* the comparator of files.sort_by in Catalog::from_files
CompareFiles(left, right) ==
    Then(CmpOptStr(left.title_id, right.title_id),
         Then(CmpOptInt(left.version, right.version),
              CmpStr(left.name, right.name)))

\* an insertion that goes before the elements that compare equal, as an
\* unstable sort may place it
RECURSIVE InsertSortedUnstable(_, _)
InsertSortedUnstable(sorted, file) ==
    IF sorted = <<>> THEN <<file>>
    ELSE IF CompareFiles(Head(sorted), file) # Less THEN <<file>> \o sorted
    ELSE <<Head(sorted)>> \o InsertSortedUnstable(Tail(sorted), file)

\* slice::sort_by is stable: an element goes after every element that does
\* not compare greater
RECURSIVE InsertSorted(_, _)
InsertSorted(sorted, file) ==
    IF sorted = <<>> THEN <<file>>
    ELSE IF CompareFiles(Head(sorted), file) = Greater THEN <<file>> \o sorted
    ELSE <<Head(sorted)>> \o InsertSorted(Tail(sorted), file)

RECURSIVE sort_by(_)
sort_by(files) ==
    IF files = <<>> THEN <<>>
    ELSE InsertSorted(sort_by(SubSeq(files, 1, Len(files) - 1)), files[Len(files)])

EmptyTitles == [k \in {} |-> <<>>]

\* a push of the position counted from one more than enumerate counts it
PushTitleFromOne(titles, key, idx) ==
    [k \in DOMAIN titles \cup {key} |->
        IF k = key
        THEN (IF key \in DOMAIN titles THEN Append(titles[key], idx + 1) ELSE <<idx + 1>>)
        ELSE titles[k]]

\* titles.entry(title_id).or_default().push(idx)
PushTitle(titles, key, idx) ==
    [k \in DOMAIN titles \cup {key} |->
        IF k = key
        THEN (IF key \in DOMAIN titles THEN Append(titles[key], idx) ELSE <<idx>>)
        ELSE titles[k]]

\* the enumerate loop of Catalog::from_files, from position idx on
RECURSIVE IndexTitles(_, _, _)
IndexTitles(files, idx, titles) ==
    IF idx > Len(files) THEN titles
    ELSE IndexTitles(files, idx + 1,
            IF files[idx].title_id.some
            THEN PushTitle(titles, files[idx].title_id.v, idx)
            ELSE titles)

from_files(files) ==
    LET sorted == sort_by(files)
    IN  [files |-> sorted, titles |-> IndexTitles(sorted, 1, EmptyTitles)]

(***************************************************************************)
(* The library on disk and scanner.rs                                      *)
(***************************************************************************)
FileIds == 1..NumFiles

TitlePrefix == <<"0", "1", "0", "0", "A", "B", "C", "D", "1", "2", "3", "4", "0">>

NspName(stem) == <<stem, ".", "n", "s", "p">>

\* the ContentFile the scanner derives for library file i: file 1 carries no
\* title id, even files are updates, odd files are base titles
LibraryFile(i) ==
    LET title_id == IF i = 1 THEN None
                    ELSE IF i % 2 = 0 THEN Some(TitlePrefix \o <<"8", "0", "0">>)
                    ELSE Some(TitlePrefix \o <<"0", "0", "0">>)
        name == IF i = 1 THEN NspName("a") ELSE NspName("g")
    IN  [ relative_path |-> ToString(i) \o <<"/">> \o name,
          name          |-> name,
          size          |-> i,
          title_id      |-> title_id,
          version       |-> IF i = 1 THEN None ELSE Some(0),
          kind          |-> classify_title_id(title_id) ]

\* what the walk meets at one entry: the entry is read ("ok"), the walk
\* yields Err for it ("walk_err"), or fs::metadata fails on it ("meta_err")
EntryStatus == {"ok", "walk_err", "meta_err"}

\* the entries in the order the walk yields them (the model fixes the
\* directory order as ascending)
RECURSIVE Listing(_, _)
Listing(st, i) ==
    IF i > NumFiles THEN <<>>
    ELSE (IF st[i] = "absent" THEN <<>> ELSE <<[id |-> i, st |-> st[i]]>>)
         \o Listing(st, i + 1)

Walks == {Listing(st, 1) : st \in [FileIds -> EntryStatus \cup {"absent"}]}

DiskStates ==
    {[root |-> FALSE, walk |-> <<>>]} \cup {[root |-> TRUE, walk |-> w] : w \in Walks}

\* no rescan is in flight
NoWalk == [walked |-> FALSE]

ScanOk(files) == [ok |-> TRUE, files |-> files]
ScanErr(kind) == [ok |-> FALSE, err |-> kind]

\* the for loop of scan_library_sync over the entries from position k on
RECURSIVE WalkEntries(_, _, _)
WalkEntries(entries, k, out) ==
    IF k > Len(entries) THEN ScanOk(out)
    ELSE IF entries[k].st = "walk_err" THEN WalkEntries(entries, k + 1, out)
    ELSE IF entries[k].st = "meta_err" THEN ScanErr("Metadata")
    ELSE WalkEntries(entries, k + 1, Append(out, LibraryFile(entries[k].id)))

scan_library_sync(d) ==
    IF ~d.root THEN ScanErr("MissingRoot")
    ELSE WalkEntries(d.walk, 1, <<>>)

\* scan_library: the result of the blocking walk, or ScanError::Walk when
\* the blocking task panicked
scan_library(sync_result, blocking_panic) ==
    IF blocking_panic THEN ScanErr("Walk") ELSE sync_result

\* the walk of library state d: what scan_library_sync returns, and whether
\* the walk met an entry it could not walk or could not read the metadata of
WalkOf(d) ==
    [ walked |-> TRUE,
      result |-> scan_library_sync(d),
      unreadable |-> \E e \in Range(d.walk) : e.st \in {"walk_err", "meta_err"} ]

(***************************************************************************)
(* main.rs: spawn_background_scanner, and the HTTP readers of the catalog  *)
(***************************************************************************)
Readers == 1..NumReaders

scanVars == <<walk, scanner, catalog, gen, lock, rpc, seen>>
pureVars == <<path_req, dl, api, dreq, meta, lib, shop, sect, item, sess>>

NoSeen == [held |-> FALSE]

\* a lock that hands out read guards while the write guard is held
CanReadUnguarded == TRUE

\* RwLock::read: tokio's lock is fair, so a read guard is handed out only
\* while no write guard is held and no writer is queued
CanRead == ~lock.writer /\ scanner.pc # "write_wait"

\* RwLock::write: granted once every read guard has been dropped
CanWrite == ~lock.writer /\ lock.readers = {}

\* a loop that spawns the next rescan on every tick without awaiting the
\* handle of the one it spawned before
TickWithoutJoin ==
    /\ scanner.pc \in {"tick", "scan", "write_wait"}
    /\ scanner.ticks < MaxTicks
    /\ \E d \in DiskStates : walk' = WalkOf(d)
    /\ scanner' = [scanner EXCEPT !.pc = "scan", !.ticks = @ + 1]
    /\ UNCHANGED <<catalog, gen, lock, rpc, seen, pureVars>>

\* ticker.tick().await, then tokio::spawn of the rescan task, whose blocking
\* walk finds the library in whatever state it is in by then
Tick ==
    /\ scanner.pc = "tick"
    /\ scanner.ticks < MaxTicks
    /\ \E d \in DiskStates : walk' = WalkOf(d)
    /\ scanner' = [scanner EXCEPT !.pc = "scan", !.ticks = @ + 1]
    /\ UNCHANGED <<catalog, gen, lock, rpc, seen, pureVars>>

\* a failed rescan that stores the empty file list it is left with
RescanFailsAndClears ==
    /\ scanner.pc = "scan"
    /\ \E blocking_panic \in BOOLEAN : ~scan_library(walk.result, blocking_panic).ok
    /\ catalog' = from_files(<<>>)
    /\ walk' = NoWalk
    /\ scanner' = [scanner EXCEPT !.pc = "join", !.outcome = "err"]
    /\ UNCHANGED <<gen, lock, rpc, seen, pureVars>>

\* scan_library(&root).await? returns Err: the task ends with Ok(Err(err))
RescanFails ==
    /\ scanner.pc = "scan"
    /\ \E blocking_panic \in BOOLEAN : ~scan_library(walk.result, blocking_panic).ok
    /\ walk' = NoWalk
    /\ scanner' = [scanner EXCEPT !.pc = "join", !.outcome = "err"]
    /\ UNCHANGED <<catalog, gen, lock, rpc, seen, pureVars>>

\* the rescan task itself panics: handle.await yields Err(join_err)
RescanPanics ==
    /\ scanner.pc = "scan"
    /\ walk' = NoWalk
    /\ scanner' = [scanner EXCEPT !.pc = "join", !.outcome = "panic"]
    /\ UNCHANGED <<catalog, gen, lock, rpc, seen, pureVars>>

\* scan_library(&root).await? returns the file list; catalog.write() is called
RescanScanned ==
    /\ scanner.pc = "scan"
    /\ scan_library(walk.result, FALSE).ok
    /\ scanner' = [scanner EXCEPT !.pc = "write_wait",
                                  !.files = scan_library(walk.result, FALSE).files]
    /\ UNCHANGED <<walk, catalog, gen, lock, rpc, seen, pureVars>>

\* catalog.write().await completes
WriteAcquire ==
    /\ scanner.pc = "write_wait"
    /\ CanWrite
    /\ lock' = [lock EXCEPT !.writer = TRUE]
    /\ scanner' = [scanner EXCEPT !.pc = "locked"]
    /\ UNCHANGED <<walk, catalog, gen, rpc, seen, pureVars>>

\* Catalog::from_files(files), the right-hand side of the assignment
BuildCatalog ==
    /\ scanner.pc = "locked"
    /\ scanner' = [scanner EXCEPT !.pc = "built", !.built = Some(from_files(scanner.files))]
    /\ UNCHANGED <<walk, catalog, gen, lock, rpc, seen, pureVars>>

\* an assignment that goes to a copy and leaves the shared files untouched
AssignFilesToCopy ==
    /\ scanner.pc = "built"
    /\ scanner' = [scanner EXCEPT !.pc = "assign_titles"]
    /\ UNCHANGED <<walk, catalog, gen, lock, rpc, seen, pureVars>>

\* *guard = ...: the files field of the shared Catalog is overwritten
AssignFiles ==
    /\ scanner.pc = "built"
    /\ catalog' = [catalog EXCEPT !.files = scanner.built.v.files]
    /\ gen' = [gen EXCEPT !.files = scanner.ticks]
    /\ scanner' = [scanner EXCEPT !.pc = "assign_titles"]
    /\ UNCHANGED <<walk, lock, rpc, seen, pureVars>>

\* *guard = ...: the titles field of the shared Catalog is overwritten
AssignTitles ==
    /\ scanner.pc = "assign_titles"
    /\ catalog' = [catalog EXCEPT !.titles = scanner.built.v.titles]
    /\ gen' = [gen EXCEPT !.titles = scanner.ticks]
    /\ scanner' = [scanner EXCEPT !.pc = "assigned"]
    /\ UNCHANGED <<walk, lock, rpc, seen, pureVars>>

\* the write guard is dropped and the task ends with Ok(Ok(count)); its
\* locals are gone
WriteRelease ==
    /\ scanner.pc = "assigned"
    /\ lock' = [lock EXCEPT !.writer = FALSE]
    /\ gen' = [gen EXCEPT !.swaps = scanner.ticks]
    /\ walk' = NoWalk
    /\ scanner' = [scanner EXCEPT !.pc = "join", !.outcome = "ok",
                                  !.files = <<>>, !.built = None]
    /\ UNCHANGED <<catalog, rpc, seen, pureVars>>

\* a loop that breaks when the rescan task panicked
JoinRescanStopsOnPanic ==
    /\ scanner.pc = "join"
    /\ scanner' = [scanner EXCEPT !.pc = IF scanner.outcome = "panic" THEN "stopped" ELSE "tick",
                                  !.before = catalog]
    /\ UNCHANGED <<walk, catalog, gen, lock, rpc, seen, pureVars>>

\* match handle.await: every arm logs and the loop goes on to the next
\* tick; the attempt is history
JoinRescan ==
    /\ scanner.pc = "join"
    /\ scanner' = [scanner EXCEPT !.pc = "tick", !.before = catalog]
    /\ UNCHANGED <<walk, catalog, gen, lock, rpc, seen, pureVars>>

\* state.catalog.read().await in a handler
ReadAcquire(r) ==
    /\ rpc[r] = "idle"
    /\ CanRead
    /\ lock' = [lock EXCEPT !.readers = @ \cup {r}]
    /\ rpc' = [rpc EXCEPT ![r] = "guard"]
    /\ seen' = [seen EXCEPT ![r] = [held |-> TRUE, floor |-> gen.swaps]]
    /\ UNCHANGED <<walk, scanner, catalog, gen, pureVars>>

\* catalog.files() under the read guard
ReadFiles(r) ==
    /\ rpc[r] = "guard"
    /\ rpc' = [rpc EXCEPT ![r] = "files"]
    /\ seen' = [seen EXCEPT ![r] =
                  [held |-> TRUE, floor |-> seen[r].floor,
                   files |-> catalog.files, fgen |-> gen.files]]
    /\ UNCHANGED <<walk, scanner, catalog, gen, lock, pureVars>>

\* the titles map under the same read guard (Catalog::versions)
ReadTitles(r) ==
    /\ rpc[r] = "files"
    /\ rpc' = [rpc EXCEPT ![r] = "both"]
    /\ seen' = [seen EXCEPT ![r] =
                  [held |-> TRUE, floor |-> seen[r].floor,
                   files |-> seen[r].files, fgen |-> seen[r].fgen,
                   titles |-> catalog.titles, tgen |-> gen.titles]]
    /\ UNCHANGED <<walk, scanner, catalog, gen, lock, pureVars>>

\* the read guard is dropped when the handler returns
ReadRelease(r) ==
    /\ rpc[r] \in {"files", "both"}
    /\ rpc' = [rpc EXCEPT ![r] = "idle"]
    /\ seen' = [seen EXCEPT ![r] = NoSeen]
    /\ lock' = [lock EXCEPT !.readers = @ \ {r}]
    /\ UNCHANGED <<walk, scanner, catalog, gen, pureVars>>

\* the variables of the shop, the sections and the sessions at rest
IdleShop ==
    /\ shop = [pc |-> "unused"]
    /\ sect = [pc |-> "unused"]
    /\ item = [pc |-> "unused"]
    /\ sess = [pc |-> "unused"]

IdlePure ==
    /\ IdleShop
    /\ path_req = [pc |-> "unused"]
    /\ dl = [pc |-> "unused"]
    /\ api = [pc |-> "unused"]
    /\ dreq = [pc |-> "unused"]
    /\ meta = [pc |-> "unused"]
    /\ lib = [pc |-> "unused"]

\* main: the initial scan must succeed, its Catalog is shared, the scanner
\* loop is spawned
Init ==
    /\ walk = NoWalk
    /\ catalog \in {from_files(scan_library_sync(d).files) :
                       d \in {x \in DiskStates : scan_library_sync(x).ok}}
    /\ gen = [files |-> 0, titles |-> 0, swaps |-> 0]
    /\ scanner = [pc |-> "tick", ticks |-> 0, files |-> <<>>, built |-> None,
                  before |-> catalog, outcome |-> "none"]
    /\ lock = [writer |-> FALSE, readers |-> {}]
    /\ rpc = [r \in Readers |-> "idle"]
    /\ seen = [r \in Readers |-> NoSeen]
    /\ IdlePure

Next ==
    \/ Tick
    \/ RescanFails
    \/ RescanPanics
    \/ RescanScanned
    \/ WriteAcquire
    \/ BuildCatalog
    \/ AssignFiles
    \/ AssignTitles
    \/ WriteRelease
    \/ JoinRescan
    \/ \E r \in Readers : ReadAcquire(r)
    \/ \E r \in Readers : ReadFiles(r)
    \/ \E r \in Readers : ReadTitles(r)
    \/ \E r \in Readers : ReadRelease(r)

Spec == Init /\ [][Next]_vars

\* the scanner task is scheduled, the ticker fires, readers finish
ScannerStep ==
    \/ Tick
    \/ RescanFails
    \/ RescanPanics
    \/ RescanScanned
    \/ WriteAcquire
    \/ BuildCatalog
    \/ AssignFiles
    \/ AssignTitles
    \/ WriteRelease
    \/ JoinRescan

SpecFair ==
    /\ Spec
    /\ WF_vars(ScannerStep)
    /\ \A r \in Readers : WF_vars(ReadRelease(r))

(***************************************************************************)
(* Properties of the rescan and of the readers                             *)
(***************************************************************************)
Observed(r) == [files |-> seen[r].files, titles |-> seen[r].titles]

\* C1: a reader that has copied the file sequence and the identifier map
\* under one read guard holds both from the same build, and that build is
\* the complete Catalog from before the rescan or the complete one after it
C1_ReaderSeesWholeCatalog ==
    \A r \in Readers :
        rpc[r] = "both" =>
            /\ seen[r].fgen = seen[r].tgen
            /\ Observed(r) \in {scanner.before, catalog}
            /\ Observed(r) = from_files(seen[r].files)

\* a reader holds the old Catalog in full while a rescan that found a
\* different library waits to swap
C1_Witness ==
    \E r \in Readers :
        /\ rpc[r] = "both"
        /\ scanner.pc = "write_wait"
        /\ from_files(scanner.files) # scanner.before
        /\ Observed(r) = scanner.before

\* C2: a rescan that ended in an error leaves the shared Catalog as it was
\* and readable; a rescan that succeeded has swapped in exactly the Catalog
\* of its own file list, with no record of the earlier snapshot
C2_FailedRescanKeepsCatalog ==
    /\ (scanner.pc = "join" /\ scanner.outcome = "err") =>
            /\ catalog = scanner.before
            /\ CanRead
    /\ scanner.pc = "assigned" =>
            /\ catalog = from_files(scanner.files)
            /\ Range(catalog.files) = Range(scanner.files)
            /\ Len(catalog.files) = Len(scanner.files)
            /\ Range(catalog.files) = Range(walk.result.files)

\* a rescan succeeds right after a failed one (whose error is the latest
\* log line) and drops a file of the earlier snapshot
C2_Witness ==
    /\ scanner.pc = "assigned"
    /\ scanner.outcome = "err"
    /\ \E f \in Range(scanner.before.files) : f \notin Range(catalog.files)

\* C3: a rescan whose walk met an entry it could not walk or could not read
\* the metadata of fails: it gets no further than the scan and the previous
\* Catalog is retained
C3_WalkErrorFailsRescan ==
    (walk.walked /\ walk.unreadable)
        => /\ scanner.pc = "scan"
           /\ catalog = scanner.before

\* C4: a rescan attempt that failed or panicked is followed by the next
\* attempt (as long as the model lets the ticker fire again)
C4_FailedAttemptIsRetried ==
    (scanner.pc = "join" /\ scanner.outcome \in {"err", "panic"} /\ scanner.ticks < MaxTicks)
        ~> (scanner.pc = "scan")

\* a new attempt runs right after an attempt that panicked
C4_Witness ==
    /\ scanner.pc = "scan"
    /\ scanner.outcome = "panic"

\* C5: a reader whose read acquisition began after a completed swap copies
\* the fields that swap (or a later one) wrote, never those it replaced
C5_ReadsAfterSwapSeeNewSnapshot ==
    \A r \in Readers :
        /\ rpc[r] \in {"files", "both"} => seen[r].fgen >= seen[r].floor
        /\ rpc[r] = "both" => seen[r].tgen >= seen[r].floor

\* a reader that acquired after a swap reads the new file sequence, which
\* differs from the replaced one
C5_Witness ==
    \E r \in Readers :
        /\ rpc[r] = "files"
        /\ seen[r].floor >= 1
        /\ seen[r].fgen = seen[r].floor
        /\ seen[r].files = catalog.files
        /\ seen[r].files # scanner.before.files

(***************************************************************************)
(* serve_files.rs: sanitize_relative_path                                  *)
(***************************************************************************)
PathChars == {"/", ".", "a", "b"}

\* str::trim_start_matches('/')
RECURSIVE trim_start_matches(_)
trim_start_matches(s) ==
    IF s # <<>> /\ Head(s) = "/" THEN trim_start_matches(Tail(s)) ELSE s

\* the pieces between separators, empty pieces included
RECURSIVE SplitSlash(_, _)
SplitSlash(s, piece) ==
    IF s = <<>> THEN <<piece>>
    ELSE IF Head(s) = "/" THEN <<piece>> \o SplitSlash(Tail(s), <<>>)
    ELSE SplitSlash(Tail(s), Append(piece, Head(s)))

\* one piece as a Component; "." counts only as the very first piece of a
\* path without root, empty pieces and other "." pieces yield nothing
PieceComponent(piece, first) ==
    IF piece = <<>> THEN <<>>
    ELSE IF piece = <<".">> THEN (IF first THEN <<[kind |-> "CurDir"]>> ELSE <<>>)
    ELSE IF piece = <<".", ".">> THEN <<[kind |-> "ParentDir"]>>
    ELSE <<[kind |-> "Normal", part |-> piece]>>

RECURSIVE PieceComponents(_, _, _)
PieceComponents(pieces, k, has_root) ==
    IF k > Len(pieces) THEN <<>>
    ELSE PieceComponent(pieces[k], k = 1 /\ ~has_root)
         \o PieceComponents(pieces, k + 1, has_root)

\* Path::components on a Unix path (no Prefix component exists there)
components(path) ==
    LET has_root == path # <<>> /\ Head(path) = "/"
    IN  (IF has_root THEN <<[kind |-> "RootDir"]>> ELSE <<>>)
        \o PieceComponents(SplitSlash(trim_start_matches(path), <<>>), 1, has_root)

\* PathBuf::push of a Normal part
PathPush(buf, part) == IF buf = <<>> THEN part ELSE buf \o <<"/">> \o part

\* the for loop of sanitize_relative_path from component k on
RECURSIVE SanitizeLoop(_, _, _)
SanitizeLoop(comps, k, sanitized) ==
    IF k > Len(comps) THEN
        (IF sanitized = <<>> THEN [ok |-> FALSE, err |-> "InvalidPath"]
         ELSE [ok |-> TRUE, path |-> sanitized])
    ELSE IF comps[k].kind = "Normal" THEN SanitizeLoop(comps, k + 1, PathPush(sanitized, comps[k].part))
    ELSE IF comps[k].kind = "CurDir" THEN SanitizeLoop(comps, k + 1, sanitized)
    ELSE [ok |-> FALSE, err |-> "InvalidPath"]

\* a loop without the ParentDir arm: ".." is dropped like "."
RECURSIVE SanitizeLoopDroppingParent(_, _, _)
SanitizeLoopDroppingParent(comps, k, sanitized) ==
    IF k > Len(comps) THEN
        (IF sanitized = <<>> THEN [ok |-> FALSE, err |-> "InvalidPath"]
         ELSE [ok |-> TRUE, path |-> sanitized])
    ELSE IF comps[k].kind = "Normal"
         THEN SanitizeLoopDroppingParent(comps, k + 1, PathPush(sanitized, comps[k].part))
    ELSE IF comps[k].kind \in {"CurDir", "ParentDir"}
         THEN SanitizeLoopDroppingParent(comps, k + 1, sanitized)
    ELSE [ok |-> FALSE, err |-> "InvalidPath"]

sanitize_dropping_parent(requested_path) ==
    SanitizeLoopDroppingParent(components(trim_start_matches(requested_path)), 1, <<>>)

sanitize_relative_path(requested_path) ==
    SanitizeLoop(components(trim_start_matches(requested_path)), 1, <<>>)

\* the scanner and the readers at rest, for the specifications of the
\* request-level functions
ParkedScanner ==
    /\ walk = NoWalk
    /\ catalog = from_files(<<>>)
    /\ gen = [files |-> 0, titles |-> 0, swaps |-> 0]
    /\ scanner = [pc |-> "tick", ticks |-> 0, files |-> <<>>, built |-> None,
                  before |-> catalog, outcome |-> "none"]
    /\ lock = [writer |-> FALSE, readers |-> {}]
    /\ rpc = [r \in Readers |-> "idle"]
    /\ seen = [r \in Readers |-> NoSeen]

InitPath ==
    /\ ParkedScanner
    /\ IdleShop
    /\ dl = [pc |-> "unused"]
    /\ api = [pc |-> "unused"]
    /\ dreq = [pc |-> "unused"]
    /\ meta = [pc |-> "unused"]
    /\ lib = [pc |-> "unused"]
    /\ path_req \in {[pc |-> "request", requested_path |-> p] :
                        p \in Strings(PathChars, MaxPathLen)}

\* a download handler calls sanitize_relative_path(&decoded)
Sanitize ==
    /\ path_req.pc = "request"
    /\ path_req' = [pc |-> "done", requested_path |-> path_req.requested_path,
                    result |-> sanitize_relative_path(path_req.requested_path)]
    /\ UNCHANGED <<scanVars, dl, api, dreq, meta, lib, shop, sect, item, sess>>

NextPath == Sanitize

SpecPath == InitPath /\ [][NextPath]_vars

\* the maximal separator-free stretches <<i, j>> of s
Segments(s) ==
    {ij \in (1..Len(s)) \X (1..Len(s)) :
        /\ ij[1] <= ij[2]
        /\ \A k \in ij[1]..ij[2] : s[k] # "/"
        /\ (ij[1] = 1 \/ s[ij[1] - 1] = "/")
        /\ (ij[2] = Len(s) \/ s[ij[2] + 1] = "/")}

SegText(s, ij) == SubSeq(s, ij[1], ij[2])

NormalSegments(s) ==
    {ij \in Segments(s) : SegText(s, ij) \notin {<<".">>, <<".", ".">>}}

HasParentSegment(s) == \E ij \in Segments(s) : SegText(s, ij) = <<".", ".">>

\* the segments of a set, left to right
InOrder(segs) ==
    CHOOSE f \in [1..Cardinality(segs) -> segs] :
        \A i, j \in 1..Cardinality(segs) : i < j => f[i][1] < f[j][1]

\* C6: sanitize_relative_path fails exactly when a ".." component occurs or
\* no normal component remains; otherwise it returns the normal components
\* in their order, separated by "/", a relative path without "..", so that
\* joining it to the library root stays under the root
C6_SanitizeRejectsTraversal ==
    path_req.pc = "done" =>
        LET p == path_req.requested_path
            res == path_req.result
        IN  /\ res.ok <=> (~HasParentSegment(p) /\ NormalSegments(p) # {})
            /\ ~res.ok => res.err = "InvalidPath"
            /\ res.ok =>
                 /\ Head(res.path) # "/"
                 /\ ~HasParentSegment(res.path)
                 /\ NormalSegments(res.path) = Segments(res.path)
                 /\ Cardinality(Segments(res.path)) = Cardinality(NormalSegments(p))
                 /\ \A k \in 1..Cardinality(NormalSegments(p)) :
                       SegText(res.path, InOrder(Segments(res.path))[k])
                         = SegText(p, InOrder(NormalSegments(p))[k])
                 /\ Len(res.path) + 1 =
                       Cardinality(Segments(res.path))
                       + Len(SelectSeq(res.path, LAMBDA c : c # "/"))

\* a request that climbs out below a normal component is rejected
C6_Witness ==
    /\ path_req.pc = "done"
    /\ ~path_req.result.ok
    /\ HasParentSegment(path_req.requested_path)
    /\ NormalSegments(path_req.requested_path) # {}

(***************************************************************************)
(* serve_files.rs: parse_range_header, stream_with_range_support           *)
(***************************************************************************)
BytesEq == <<"b", "y", "t", "e", "s", "=">>

StartsWith(s, prefix) ==
    Len(s) >= Len(prefix) /\ SubSeq(s, 1, Len(prefix)) = prefix

Contains(s, c) == \E i \in 1..Len(s) : s[i] = c

\* str::split_once('-'): the text before and after the first '-'
split_once(s) ==
    IF ~Contains(s, "-") THEN None
    ELSE LET i == CHOOSE k \in 1..Len(s) :
                     s[k] = "-" /\ \A j \in 1..(k - 1) : s[j] # "-"
         IN  Some(<<SubSeq(s, 1, i - 1), SubSeq(s, i + 1, Len(s))>>)

RECURSIVE DecimalValue(_, _)
DecimalValue(digits, acc) ==
    IF digits = <<>> THEN acc
    ELSE DecimalValue(Tail(digits), acc * 10 + DigitVal(Head(digits)))

\* str::parse::<u64>: an optional '+', then one or more decimal digits (the
\* texts of the model are too short to exceed u64::MAX)
parse_u64(s) ==
    LET digits == IF s # <<>> /\ Head(s) = "+" THEN Tail(s) ELSE s
    IN  IF digits = <<>> \/ \E i \in 1..Len(digits) : ~IsDigit(digits[i])
        THEN None
        ELSE Some(DecimalValue(digits, 0))

\* a subtraction that wraps around (on a 16-bit word here) instead of
\* stopping at zero
wrapping_sub(a, b) == (a - b) % 65536

\* u64::saturating_sub
saturating_sub(a, b) == IF a >= b THEN a - b ELSE 0

\* ByteRange::len without the closing byte
ByteRangeLenExclusive(range) == saturating_sub(range.end, range.start)

\* ByteRange::len (saturating_add(1) cannot saturate below u64::MAX)
ByteRangeLen(range) == saturating_sub(range.end, range.start) + 1

InvalidRange == [ok |-> FALSE, err |-> "InvalidRange"]

OkRange(start, end) == [ok |-> TRUE, start |-> start, end |-> end]

parse_range_header(value, file_size) ==
    IF file_size = 0 \/ ~StartsWith(value, BytesEq) THEN InvalidRange
    ELSE LET raw == SubSeq(value, 7, Len(value))
         IN  IF Contains(raw, ",") THEN InvalidRange
             ELSE IF ~split_once(raw).some THEN InvalidRange
             ELSE LET raw_start == split_once(raw).v[1]
                      raw_end == split_once(raw).v[2]
                  IN  IF raw_start = <<>> THEN
                          (IF ~parse_u64(raw_end).some THEN InvalidRange
                           ELSE IF parse_u64(raw_end).v = 0 THEN InvalidRange
                           ELSE OkRange(saturating_sub(file_size, parse_u64(raw_end).v),
                                        saturating_sub(file_size, 1)))
                      ELSE IF ~parse_u64(raw_start).some THEN InvalidRange
                      ELSE IF raw_end # <<>> /\ ~parse_u64(raw_end).some THEN InvalidRange
                      ELSE LET start == parse_u64(raw_start).v
                               end == IF raw_end = <<>> THEN saturating_sub(file_size, 1)
                                      ELSE parse_u64(raw_end).v
                           IN  IF start >= file_size \/ end >= file_size \/ start > end
                               THEN InvalidRange
                               ELSE OkRange(start, end)

\* HeaderValue::to_str: fails on a byte outside visible ASCII
to_str(value) == IF Contains(value, "0xFF") THEN None ELSE Some(value)

\* the bytes of a file of the given size: the byte at offset i is i
FileBytes(size) == [i \in 1..size |-> i - 1]

Min(a, b) == IF a <= b THEN a ELSE b

\* file.seek(SeekFrom::Start(start)), then file.take(len) read to its end
ReadTake(size, start, len) ==
    SubSeq(FileBytes(size), start + 1, Min(start + len, size))

BytesSpace == <<"b", "y", "t", "e", "s", " ">>

\* format!("bytes {}-{}/{}", range.start, range.end, file_size)
ContentRange(range, file_size) ==
    BytesSpace \o ToString(range.start) \o <<"-">> \o ToString(range.end)
               \o <<"/">> \o ToString(file_size)

\* format!("bytes */{file_size}")
UnsatisfiedRange(file_size) == BytesSpace \o <<"*", "/">> \o ToString(file_size)

\* the Some(Ok(range)) arm and the headers set after the match
PartialContent(range, file_size) ==
    [ ok |-> TRUE, status |-> 206,
      accept_ranges  |-> Some(<<"b", "y", "t", "e", "s">>),
      content_length |-> Some(ToString(ByteRangeLen(range))),
      content_range  |-> Some(ContentRange(range, file_size)),
      body |-> ReadTake(file_size, range.start, ByteRangeLen(range)) ]

\* the Some(Err(_)) arm, which returns its own response
RangeNotSatisfiable(file_size) ==
    [ ok |-> TRUE, status |-> 416,
      accept_ranges  |-> None,
      content_length |-> None,
      content_range  |-> Some(UnsatisfiedRange(file_size)),
      body |-> <<>> ]

\* a None arm that labels the full body with a Content-Range
FullContentWithRange(file_size) ==
    [ ok |-> TRUE, status |-> 200,
      accept_ranges  |-> Some(<<"b", "y", "t", "e", "s">>),
      content_length |-> Some(ToString(file_size)),
      content_range  |-> Some(UnsatisfiedRange(file_size)),
      body |-> FileBytes(file_size) ]

\* the None arm and the headers set after the match
FullContent(file_size) ==
    [ ok |-> TRUE, status |-> 200,
      accept_ranges  |-> Some(<<"b", "y", "t", "e", "s">>),
      content_length |-> Some(ToString(file_size)),
      content_range  |-> None,
      body |-> FileBytes(file_size) ]

FileServeError(kind) == [ok |-> FALSE, err |-> kind]

\* a variant that looks at the Range header before it looks at the file
stream_with_range_first(file, range) ==
    LET file_size == IF file.kind = "file" THEN file.size ELSE 0
        maybe_range ==
            IF range.some /\ to_str(range.v).some
            THEN Some(parse_range_header(to_str(range.v).v, file_size))
            ELSE None
    IN  IF maybe_range.some /\ ~maybe_range.v.ok THEN RangeNotSatisfiable(file_size)
        ELSE IF file.kind # "file" THEN FileServeError("NotFound")
        ELSE IF ~file.open_ok THEN FileServeError("Io")
        ELSE IF maybe_range.some THEN
                 (IF ~file.seek_ok THEN FileServeError("Io")
                  ELSE PartialContent(maybe_range.v, file_size))
        ELSE FullContent(file_size)

\* file: what root.join(requested_path) is and whether open and seek work;
\* range: the Range header of the request, if any
stream_with_range_support(file, range) ==
    IF file.kind # "file" THEN FileServeError("NotFound")
    ELSE LET file_size == file.size
             maybe_range ==
                 IF range.some /\ to_str(range.v).some
                 THEN Some(parse_range_header(to_str(range.v).v, file_size))
                 ELSE None
         IN  IF ~file.open_ok THEN FileServeError("Io")
             ELSE IF maybe_range.some /\ maybe_range.v.ok THEN
                      (IF ~file.seek_ok THEN FileServeError("Io")
                       ELSE PartialContent(maybe_range.v, file_size))
             ELSE IF maybe_range.some THEN RangeNotSatisfiable(file_size)
             ELSE FullContent(file_size)

RangeChars == {"0", "1", "3", "-", ",", "+", "x", "0xFF"}

RangePrefixes == {BytesEq, <<"b", "i", "t", "s", "=">>, <<>>}

RangeHeaders ==
    {None} \cup {Some(prefix \o raw) :
                    prefix \in RangePrefixes, raw \in Strings(RangeChars, MaxRawLen)}

TargetFiles ==
    {[kind |-> "missing"], [kind |-> "dir"]}
    \cup {[kind |-> "file", size |-> n, open_ok |-> o, seek_ok |-> k] :
             n \in 0..MaxFileSize,
             o \in BOOLEAN, k \in BOOLEAN}

InitRange ==
    /\ ParkedScanner
    /\ IdleShop
    /\ path_req = [pc |-> "unused"]
    /\ api = [pc |-> "unused"]
    /\ dreq = [pc |-> "unused"]
    /\ meta = [pc |-> "unused"]
    /\ lib = [pc |-> "unused"]
    /\ dl \in {[pc |-> "request", file |-> f, range |-> h] :
                  f \in TargetFiles, h \in RangeHeaders}

\* one download request served by stream_with_range_support
Download ==
    /\ dl.pc = "request"
    /\ dl' = [pc |-> "done", file |-> dl.file, range |-> dl.range,
              response |-> stream_with_range_support(dl.file, dl.range)]
    /\ UNCHANGED <<scanVars, path_req, api, dreq, meta, lib, shop, sect, item, sess>>

NextRange == Download

SpecRange == InitRange /\ [][NextRange]_vars

(***************************************************************************)
(* Properties of range-aware streaming                                     *)
(***************************************************************************)
\* the request was for a regular file that could be opened and seeked
Served ==
    /\ dl.pc = "done"
    /\ dl.file.kind = "file"
    /\ dl.file.open_ok
    /\ dl.file.seek_ok

BytesToken == <<"b", "y", "t", "e", "s">>

\* the 206 response for the bytes a..b of a file of size S
Expected206(a, b, S) ==
    [ ok |-> TRUE, status |-> 206,
      accept_ranges  |-> Some(BytesToken),
      content_length |-> Some(ToString(b - a + 1)),
      content_range  |-> Some(BytesSpace \o ToString(a) \o <<"-">> \o ToString(b)
                                         \o <<"/">> \o ToString(S)),
      body |-> [i \in 1..(b - a + 1) |-> a + i - 1] ]

\* C7: for a readable regular file of size S, a Range header "bytes=a-b"
\* with a <= b < S, or "bytes=a-" with a < S, is answered 206 with
\* Content-Range "bytes a-b/S", Content-Length b-a+1, Accept-Ranges bytes
\* and exactly the bytes a..b; and every 206 is of that shape for some
\* 0 <= a <= b < S
C7_ValidRangeServed ==
    Served =>
        LET S == dl.file.size
        IN  /\ \A a, b \in 0..MaxFileSize :
                 (/\ a <= b
                  /\ b < S
                  /\ dl.range = Some(BytesEq \o ToString(a) \o <<"-">> \o ToString(b)))
                    => dl.response = Expected206(a, b, S)
            /\ \A a \in 0..MaxFileSize :
                 (a < S /\ dl.range = Some(BytesEq \o ToString(a) \o <<"-">>))
                    => dl.response = Expected206(a, S - 1, S)
            /\ dl.response.status = 206 =>
                 \E a, b \in 0..MaxFileSize :
                    a <= b /\ b < S /\ dl.response = Expected206(a, b, S)

\* "bytes=1-3" on a file of at least four bytes yields the bytes 1, 2, 3
C7_Witness ==
    /\ Served
    /\ dl.range = Some(BytesEq \o <<"1", "-", "3">>)
    /\ dl.response.status = 206
    /\ dl.response.body = <<1, 2, 3>>

\* the cases the Range header is not satisfiable in
Unsatisfiable(value, S) ==
    \/ S = 0
    \/ ~StartsWith(value, BytesEq)
    \/ LET raw == SubSeq(value, 7, Len(value))
       IN  \/ Contains(raw, ",")
           \/ /\ split_once(raw).some
              /\ LET raw_start == split_once(raw).v[1]
                     raw_end == split_once(raw).v[2]
                 IN  IF raw_start = <<>>
                     THEN ~parse_u64(raw_end).some \/ parse_u64(raw_end).v = 0
                     ELSE \/ ~parse_u64(raw_start).some
                          \/ raw_end # <<>> /\ ~parse_u64(raw_end).some
                          \/ parse_u64(raw_start).v >= S
                          \/ raw_end # <<>> /\ parse_u64(raw_end).v >= S
                          \/ raw_end # <<>> /\ parse_u64(raw_start).v > parse_u64(raw_end).v

\* C8: a Range header that is not satisfiable (empty file, no "bytes="
\* prefix, several ranges, a field that is no number, suffix 0, start or end
\* beyond the file, start after end) is answered with a 416 response with
\* Content-Range "bytes */S" and an empty body
C8_UnsatisfiableRangeIs416 ==
    (/\ dl.pc = "done"
     /\ dl.file.kind = "file"
     /\ dl.file.open_ok
     /\ dl.range.some
     /\ Unsatisfiable(dl.range.v, dl.file.size))
        => /\ dl.response.ok
           /\ dl.response.status = 416
           /\ dl.response.content_range
                = Some(BytesSpace \o <<"*", "/">> \o ToString(dl.file.size))
           /\ dl.response.body = <<>>

\* C9: without a Range header a readable regular file is answered 200 with
\* the whole file, Content-Length equal to its size, Accept-Ranges bytes
\* and no Content-Range
C9_NoRangeServesWholeFile ==
    (/\ dl.pc = "done"
     /\ dl.file.kind = "file"
     /\ dl.file.open_ok
     /\ dl.range = None)
        => /\ dl.response.ok
           /\ dl.response.status = 200
           /\ dl.response.body = [i \in 1..dl.file.size |-> i - 1]
           /\ dl.response.content_length = Some(ToString(dl.file.size))
           /\ dl.response.accept_ranges = Some(BytesToken)
           /\ dl.response.content_range = None

\* a non-empty file is served in full
C9_Witness ==
    /\ dl.pc = "done"
    /\ dl.range = None
    /\ dl.file.kind = "file"
    /\ dl.file.size > 1
    /\ dl.response.ok
    /\ dl.response.status = 200

Max(a, b) == IF a >= b THEN a ELSE b

\* C10: "bytes=-N" with N > 0 on a file of size S > 0 resolves to
\* start = max(0, S - N) and end = S - 1, never to a start below zero or
\* beyond the file; with N >= S the whole file is served as a 206
C10_SuffixRange ==
    Served =>
        LET S == dl.file.size
        IN  \A N \in 1..(3 * MaxFileSize + 1) :
               (S > 0 /\ dl.range = Some(BytesEq \o <<"-">> \o ToString(N)))
                 => /\ parse_range_header(dl.range.v, S) = OkRange(Max(0, S - N), S - 1)
                    /\ dl.response = Expected206(Max(0, S - N), S - 1, S)
                    /\ N >= S => dl.response.body = [i \in 1..S |-> i - 1]

\* "bytes=-3" on a file of two bytes serves both bytes as a 206
C10_Witness ==
    /\ Served
    /\ dl.file.size = 2
    /\ dl.range = Some(BytesEq \o <<"-", "3">>)
    /\ dl.response.status = 206
    /\ dl.response.body = <<0, 1>>

(***************************************************************************)
(* http/responses.rs, http/error.rs: from FileServeError to a status       *)
(***************************************************************************)
\* map_file_error
map_file_error(error) ==
    CASE error = "InvalidPath" -> "InvalidPath"
      [] error = "NotFound" -> "NotFound"
      [] error = "InvalidRange" -> "InvalidRange"
      [] error \in {"Io", "HeaderValue"} -> "Internal"

\* ApiError::status
ApiErrorStatus(error) ==
    CASE error = "Unauthorized" -> 401
      [] error \in {"TitleNotFound", "NotFound"} -> 404
      [] error = "InvalidPath" -> 400
      [] error = "InvalidRange" -> 416
      [] error = "Internal" -> 500

\* C11: when root.join(relative_path) does not exist or is not a regular
\* file, stream_with_range_support fails with NotFound, which the handlers
\* answer 404, whatever the Range header is: a missing file asked for with
\* an invalid Range is a 404, not a 416
C11_MissingFileIsNotFound ==
    (dl.pc = "done" /\ dl.file.kind # "file")
        => /\ dl.response = FileServeError("NotFound")
           /\ ApiErrorStatus(map_file_error(dl.response.err)) = 404

\* a directory is asked for with a Range header that has no "bytes=" prefix
C11_Witness ==
    /\ dl.pc = "done"
    /\ dl.file.kind = "dir"
    /\ dl.range = Some(<<"b", "i", "t", "s", "=", "0", "-", "1">>)
    /\ ~dl.response.ok
    /\ dl.response.err = "NotFound"

(***************************************************************************)
(* Bytes and text: ASCII, UTF-8, base64                                    *)
(***************************************************************************)
\* the printable ASCII characters; the character at position i has code
\* 31 + i ("0x60" stands for the grave accent)
Printable ==
    << " ", "!", "\"", "#", "$", "%", "&", "'", "(", ")", "*", "+", ",", "-", ".", "/",
       "0", "1", "2", "3", "4", "5", "6", "7", "8", "9", ":", ";", "<", "=", ">", "?",
       "@", "A", "B", "C", "D", "E", "F", "G", "H", "I", "J", "K", "L", "M", "N", "O",
       "P", "Q", "R", "S", "T", "U", "V", "W", "X", "Y", "Z", "[", "\\", "]", "^", "_",
       "0x60", "a", "b", "c", "d", "e", "f", "g", "h", "i", "j", "k", "l", "m", "n", "o",
       "p", "q", "r", "s", "t", "u", "v", "w", "x", "y", "z", "{", "|", "}", "~" >>

IsPrintable(c) == \E i \in 1..Len(Printable) : Printable[i] = c

\* the code of a printable character
ByteOf(c) == 31 + (CHOOSE i \in 1..Len(Printable) : Printable[i] = c)

\* the character of a byte below 0x80; "ctl" stands for a control character
CharOf(b) == IF b >= 32 /\ b <= 126 THEN Printable[b - 31] ELSE "ctl"

\* char::to_ascii_lowercase
ToAsciiLowercase(c) ==
    IF IsPrintable(c) /\ ByteOf(c) >= 65 /\ ByteOf(c) <= 90 THEN CharOf(ByteOf(c) + 32)
    ELSE c

\* str::eq_ignore_ascii_case
eq_ignore_ascii_case(a, b) ==
    /\ Len(a) = Len(b)
    /\ \A i \in 1..Len(a) : ToAsciiLowercase(a[i]) = ToAsciiLowercase(b[i])

IsCont(b) == b >= 128 /\ b <= 191

\* the length of the well-formed UTF-8 sequence the bytes start with, 0
\* when they start with none
Utf8SeqLen(bytes) ==
    LET n == Len(bytes)
        b1 == bytes[1]
    IN  IF b1 < 128 THEN 1
        ELSE IF b1 >= 194 /\ b1 <= 223
             THEN (IF n >= 2 /\ IsCont(bytes[2]) THEN 2 ELSE 0)
        ELSE IF b1 >= 224 /\ b1 <= 239
             THEN (IF /\ n >= 3
                      /\ IsCont(bytes[2])
                      /\ IsCont(bytes[3])
                      /\ (b1 = 224 => bytes[2] >= 160)
                      /\ (b1 = 237 => bytes[2] <= 159)
                   THEN 3 ELSE 0)
        ELSE IF b1 >= 240 /\ b1 <= 244
             THEN (IF /\ n >= 4
                      /\ IsCont(bytes[2])
                      /\ IsCont(bytes[3])
                      /\ IsCont(bytes[4])
                      /\ (b1 = 240 => bytes[2] >= 144)
                      /\ (b1 = 244 => bytes[2] <= 143)
                   THEN 4 ELSE 0)
        ELSE 0

\* std::str::from_utf8 succeeds
RECURSIVE Utf8Valid(_)
Utf8Valid(bytes) ==
    IF bytes = <<>> THEN TRUE
    ELSE /\ Utf8SeqLen(bytes) > 0
         /\ Utf8Valid(SubSeq(bytes, Utf8SeqLen(bytes) + 1, Len(bytes)))

\* String::from_utf8: a String is its UTF-8 bytes
from_utf8(bytes) == IF Utf8Valid(bytes) THEN Some(bytes) ELSE None

\* the alphabet of base64::prelude::BASE64_STANDARD; position i has value i - 1
Base64Alphabet ==
    << "A", "B", "C", "D", "E", "F", "G", "H", "I", "J", "K", "L", "M", "N", "O", "P",
       "Q", "R", "S", "T", "U", "V", "W", "X", "Y", "Z",
       "a", "b", "c", "d", "e", "f", "g", "h", "i", "j", "k", "l", "m", "n", "o", "p",
       "q", "r", "s", "t", "u", "v", "w", "x", "y", "z",
       "0", "1", "2", "3", "4", "5", "6", "7", "8", "9", "+", "/" >>

IsBase64(c) == \E i \in 1..64 : Base64Alphabet[i] = c

Base64Val(c) == (CHOOSE i \in 1..64 : Base64Alphabet[i] = c) - 1

\* the bytes of a run of complete four-symbol groups
RECURSIVE DecodeQuads(_)
DecodeQuads(symbols) ==
    IF symbols = <<>> THEN <<>>
    ELSE LET v1 == Base64Val(symbols[1])
             v2 == Base64Val(symbols[2])
             v3 == Base64Val(symbols[3])
             v4 == Base64Val(symbols[4])
         IN  << v1 * 4 + (v2 \div 16), (v2 % 16) * 16 + (v3 \div 4), (v3 % 4) * 64 + v4 >>
             \o DecodeQuads(SubSeq(symbols, 5, Len(symbols)))

\* BASE64_STANDARD.decode: canonical padding is required, the bits left
\* over in the last symbol must be zero
base64_decode(input) ==
    LET n == Len(input)
        pad == IF n >= 2 /\ input[n] = "=" /\ input[n - 1] = "=" THEN 2
               ELSE IF n >= 1 /\ input[n] = "=" THEN 1
               ELSE 0
        symbols == SubSeq(input, 1, n - pad)
        whole == SubSeq(symbols, 1, 4 * (Len(symbols) \div 4))
        last == SubSeq(symbols, Len(whole) + 1, Len(symbols))
    IN  IF n % 4 # 0 THEN None
        ELSE IF \E i \in 1..Len(symbols) : ~IsBase64(symbols[i]) THEN None
        ELSE IF pad = 0 THEN Some(DecodeQuads(whole))
        ELSE IF pad = 1 THEN
                 (IF Base64Val(last[3]) % 4 # 0 THEN None
                  ELSE Some(DecodeQuads(whole)
                            \o << Base64Val(last[1]) * 4 + (Base64Val(last[2]) \div 16),
                                  (Base64Val(last[2]) % 16) * 16
                                      + (Base64Val(last[3]) \div 4) >>))
        ELSE (IF Base64Val(last[2]) % 16 # 0 THEN None
              ELSE Some(DecodeQuads(whole)
                        \o << Base64Val(last[1]) * 4 + (Base64Val(last[2]) \div 16) >>))

(***************************************************************************)
(* auth.rs, http/auth.rs, http/state.rs, http/error.rs: authorization      *)
(***************************************************************************)
MaxEncodedLen == 4

IsWhitespace(c) == c \in {" ", "\t"}

\* str::split_whitespace: the non-empty stretches between whitespace
RECURSIVE SplitWhitespace(_, _)
SplitWhitespace(s, piece) ==
    IF s = <<>> THEN (IF piece = <<>> THEN <<>> ELSE <<piece>>)
    ELSE IF IsWhitespace(Head(s))
         THEN (IF piece = <<>> THEN <<>> ELSE <<piece>>) \o SplitWhitespace(Tail(s), <<>>)
    ELSE SplitWhitespace(Tail(s), Append(piece, Head(s)))

split_whitespace(s) == SplitWhitespace(s, <<>>)

Colon == 58

\* str::split_once(':') on the bytes of the credentials
split_once_colon(bytes) ==
    IF \E i \in 1..Len(bytes) : bytes[i] = Colon
    THEN LET k == CHOOSE i \in 1..Len(bytes) :
                     bytes[i] = Colon /\ \A j \in 1..(i - 1) : bytes[j] # Colon
         IN  Some(<<SubSeq(bytes, 1, k - 1), SubSeq(bytes, k + 1, Len(bytes))>>)
    ELSE None

BasicWord == <<"b", "a", "s", "i", "c">>

\* extract_basic_auth: the Authorization header, if any, as (username,
\* password)
extract_basic_auth(authorization) ==
    IF ~authorization.some \/ ~to_str(authorization.v).some THEN None
    ELSE LET parts == split_whitespace(to_str(authorization.v).v)
         IN  IF Len(parts) < 1 THEN None
             ELSE IF Len(parts) < 2 THEN None
             ELSE IF ~eq_ignore_ascii_case(parts[1], BasicWord) \/ Len(parts) > 2 THEN None
             ELSE IF ~base64_decode(parts[2]).some THEN None
             ELSE IF ~from_utf8(base64_decode(parts[2]).v).some THEN None
             ELSE LET credentials == from_utf8(base64_decode(parts[2]).v).v
                  IN  IF ~split_once_colon(credentials).some THEN None
                      ELSE Some([username |-> split_once_colon(credentials).v[1],
                                 password |-> split_once_colon(credentials).v[2]])

\* AuthSettings::is_enabled; users maps a username to its password
is_enabled(users) == DOMAIN users # {}

\* AuthSettings::is_authorized accepting every password of a known user
is_authorized_any_password(users, username, password) ==
    username \in DOMAIN users

\* AuthSettings::is_authorized: ct_eq of two slices is false for slices of
\* different lengths
is_authorized(users, username, password) ==
    /\ username \in DOMAIN users
    /\ users[username] = password

\* SessionStore::get: the user of an unexpired entry; an expired entry is
\* removed.  sessions maps a token to [username, expired]
SessionGet(sessions, token) ==
    IF token \notin DOMAIN sessions THEN [user |-> None, sessions |-> sessions]
    ELSE IF ~sessions[token].expired
         THEN [user |-> Some(sessions[token].username), sessions |-> sessions]
    ELSE [user |-> None,
          sessions |-> [t \in DOMAIN sessions \ {token} |-> sessions[t]]]

\* ensure_authorized: Ok(()) or Err(ApiError::Unauthorized), and the session
\* store afterwards
ensure_authorized(users, sessions, authorization, session_token) ==
    IF ~is_enabled(users) THEN [ok |-> TRUE, sessions |-> sessions]
    ELSE LET got == IF session_token.some THEN SessionGet(sessions, session_token.v)
                    ELSE [user |-> None, sessions |-> sessions]
             basic == extract_basic_auth(authorization)
         IN  IF got.user.some THEN [ok |-> TRUE, sessions |-> got.sessions]
             ELSE IF basic.some /\ is_authorized(users, basic.v.username, basic.v.password)
                  THEN [ok |-> TRUE, sessions |-> got.sessions]
             ELSE [ok |-> FALSE, err |-> "Unauthorized", sessions |-> got.sessions]

\* HeaderValue::from_static("Basic realm=\"ownfoil-rs\"")
BasicRealm ==
    << "B", "a", "s", "i", "c", " ", "r", "e", "a", "l", "m", "=", "\"",
       "o", "w", "n", "f", "o", "i", "l", "-", "r", "s", "\"" >>

\* ApiError::into_response: the status, a JSON error body, and the
\* challenge header for Unauthorized only
ApiErrorResponse(error) ==
    [ status |-> ApiErrorStatus(error),
      body |-> [error |-> error],
      www_authenticate |-> IF error = "Unauthorized" THEN Some(BasicRealm) ELSE None ]

\* Ok(Json(build_catalog_response(map_to_entries(catalog.files()))))
CatalogResponse(files) ==
    [ status |-> 200, body |-> [files |-> files], www_authenticate |-> None ]

\* catalog_all: the response and the session store afterwards
catalog_all(users, sessions, authorization, session_token, files) ==
    LET authz == ensure_authorized(users, sessions, authorization, session_token)
    IN  [ response |-> IF ~authz.ok THEN ApiErrorResponse(authz.err)
                       ELSE CatalogResponse(files),
          sessions |-> authz.sessions ]

\* the configured user "u" with password "p", and a second user "M"
UserU == <<117>>
UserM == <<77>>
PasswordP == <<112>>
PasswordS == <<83>>

\* no user (auth disabled), or two users
AuthConfigs ==
    { [n \in {} |-> <<>>],
      [n \in {UserU, UserM} |-> IF n = UserU THEN PasswordP ELSE PasswordS] }

Tokens == {"t1"}

\* the token may be missing from the store, or in it live or expired
SessionStores ==
    { [t \in {} |-> [username |-> UserU, expired |-> FALSE]] }
    \cup { [t \in {"t1"} |-> [username |-> UserU, expired |-> e]] : e \in BOOLEAN }

Base64Chars == {"d", "T", "p", "w"}

SchemePrefixes ==
    { <<>>,
      <<"B", "a", "s", "i", "c", " ">>,
      <<"b", "A", "S", "I", "C", " ", " ">>,
      <<"B", "a", "s", "i", "c">>,
      <<"B", "e", "a", "r", "e", "r", " ">> }

HeaderSuffixes == { <<>>, <<"=">>, <<" ", "d">>, <<"0xFF">> }

AuthorizationHeaders ==
    {None} \cup { Some(prefix \o encoded \o suffix) :
                     prefix \in SchemePrefixes,
                     encoded \in Strings(Base64Chars, MaxEncodedLen),
                     suffix \in HeaderSuffixes }

\* the catalog in these requests holds one file
ServedFiles == <<LibraryFile(1)>>

InitAuth ==
    /\ ParkedScanner
    /\ IdleShop
    /\ path_req = [pc |-> "unused"]
    /\ dl = [pc |-> "unused"]
    /\ dreq = [pc |-> "unused"]
    /\ meta = [pc |-> "unused"]
    /\ lib = [pc |-> "unused"]
    /\ api \in { [pc |-> "request", users |-> u, sessions |-> st,
                  authorization |-> h, session_token |-> tok] :
                    u \in AuthConfigs, st \in SessionStores,
                    h \in AuthorizationHeaders,
                    tok \in {None} \cup {Some(t) : t \in Tokens} }

\* GET /api/catalog
CatalogAll ==
    /\ api.pc = "request"
    /\ LET out == catalog_all(api.users, api.sessions, api.authorization,
                              api.session_token, ServedFiles)
       IN  api' = [ pc |-> "done", users |-> api.users, sessions |-> api.sessions,
                    authorization |-> api.authorization,
                    session_token |-> api.session_token,
                    sessions_after |-> out.sessions,
                    response |-> out.response ]
    /\ UNCHANGED <<scanVars, path_req, dl, dreq, meta, lib, shop, sect, item, sess>>

NextAuth == CatalogAll

SpecAuth == InitAuth /\ [][NextAuth]_vars

(***************************************************************************)
(* Properties of authorization                                             *)
(***************************************************************************)
\* the request carries the token of a session that has not expired
HasLiveSession ==
    /\ api.session_token.some
    /\ api.session_token.v \in DOMAIN api.sessions
    /\ ~api.sessions[api.session_token.v].expired

\* the text is the base64 encoding of "user:password" of a configured user
EncodesConfiguredUser(encoded) ==
    /\ base64_decode(encoded).some
    /\ \E n \in DOMAIN api.users :
          base64_decode(encoded).v = n \o <<Colon>> \o api.users[n]

\* the Authorization header is a Basic scheme word, whitespace, and the
\* encoded credentials of a configured user
HasBasicCredentials ==
    /\ api.authorization.some
    /\ ~Contains(api.authorization.v, "0xFF")
    /\ LET words == split_whitespace(api.authorization.v)
       IN  /\ Len(words) = 2
           /\ eq_ignore_ascii_case(words[1], BasicWord)
           /\ EncodesConfiguredUser(words[2])

C14_BareBase64IsAccepted ==
    (/\ api.pc = "done"
     /\ DOMAIN api.users # {}
     /\ api.authorization.some
     /\ EncodesConfiguredUser(api.authorization.v))
        => api.response.status = 200

(***************************************************************************)
(* http/handlers.rs: download                                              *)
(***************************************************************************)
MaxUrlLen == 4

HexDigits ==
    << "0", "1", "2", "3", "4", "5", "6", "7", "8", "9", "a", "b", "c", "d", "e", "f" >>

IsHex(c) == \E i \in 1..16 : HexDigits[i] = ToAsciiLowercase(c)

HexVal(c) == (CHOOSE i \in 1..16 : HexDigits[i] = ToAsciiLowercase(c)) - 1

\* percent_decode_str: "%" and two hex digits become one byte, every other
\* character stays as it is
RECURSIVE percent_decode_str(_)
percent_decode_str(s) ==
    IF s = <<>> THEN <<>>
    ELSE IF Head(s) = "%" /\ Len(s) >= 3 /\ IsHex(s[2]) /\ IsHex(s[3])
         THEN <<16 * HexVal(s[2]) + HexVal(s[3])>>
              \o percent_decode_str(SubSeq(s, 4, Len(s)))
    ELSE <<ByteOf(Head(s))>> \o percent_decode_str(Tail(s))

\* the characters of well-formed UTF-8; "U+" stands for a character
\* outside ASCII
RECURSIVE Utf8Chars(_)
Utf8Chars(bytes) ==
    IF bytes = <<>> THEN <<>>
    ELSE (IF Utf8SeqLen(bytes) = 1 THEN <<CharOf(bytes[1])>> ELSE <<"U+">>)
         \o Utf8Chars(SubSeq(bytes, Utf8SeqLen(bytes) + 1, Len(bytes)))

\* PercentDecode::decode_utf8
decode_utf8(bytes) == IF Utf8Valid(bytes) THEN Some(Utf8Chars(bytes)) ELSE None

\* download: the response and the session store afterwards.  file is what
\* library_root.join(sanitized) is; range is the Range header, if any
download(users, sessions, authorization, session_token, path, file, range) ==
    LET authz == ensure_authorized(users, sessions, authorization, session_token)
        decoded == decode_utf8(percent_decode_str(path))
        sanitized == sanitize_relative_path(decoded.v)
        streamed == stream_with_range_support(file, range)
    IN  [ response |->
            IF ~authz.ok THEN ApiErrorResponse(authz.err)
            ELSE IF ~decoded.some THEN ApiErrorResponse("InvalidPath")
            ELSE IF ~sanitized.ok THEN ApiErrorResponse(map_file_error(sanitized.err))
            ELSE IF ~streamed.ok THEN ApiErrorResponse(map_file_error(streamed.err))
            ELSE streamed,
          sessions |-> authz.sessions ]

\* "e" is a hex digit after "%" and a file name otherwise
UrlChars == {"%", "2", "e", ".", "/"}

\* auth disabled, or one user and a request without credentials
DownloadAuth == {[n \in {} |-> <<>>], [n \in {UserU} |-> PasswordP]}

DownloadFiles ==
    {[kind |-> "missing"], [kind |-> "dir"]}
    \cup {[kind |-> "file", size |-> 2, open_ok |-> o, seek_ok |-> k] :
             o \in BOOLEAN, k \in BOOLEAN}

DownloadRanges ==
    { None,
      Some(BytesEq \o <<"0", "-", "1">>),
      Some(BytesEq \o <<"3", "-">>),
      Some(<<"b", "i", "t", "s", "=", "0", "-", "1">>),
      Some(<<"0xFF">>) }

InitDownload ==
    /\ ParkedScanner
    /\ IdleShop
    /\ path_req = [pc |-> "unused"]
    /\ dl = [pc |-> "unused"]
    /\ api = [pc |-> "unused"]
    /\ meta = [pc |-> "unused"]
    /\ lib = [pc |-> "unused"]
    /\ dreq \in { [pc |-> "request", users |-> u, path |-> p, file |-> f, range |-> h] :
                     u \in DownloadAuth, p \in Strings(UrlChars, MaxUrlLen),
                     f \in DownloadFiles, h \in DownloadRanges }

\* GET /api/download/{*path}, without session cookie or Authorization header
DownloadRequest ==
    /\ dreq.pc = "request"
    /\ LET out == download(dreq.users, [t \in {} |-> <<>>], None, None,
                           dreq.path, dreq.file, dreq.range)
       IN  dreq' = [ pc |-> "done", users |-> dreq.users, path |-> dreq.path,
                     file |-> dreq.file, range |-> dreq.range,
                     response |-> out.response ]
    /\ UNCHANGED <<scanVars, path_req, dl, api, meta, lib, shop, sect, item, sess>>

NextDownload == DownloadRequest

SpecDownload == InitDownload /\ [][NextDownload]_vars

(***************************************************************************)
(* Properties of the download handler                                      *)
(***************************************************************************)
\* the URL path names something under the library root: it decodes to
\* text, holds no ".." component and at least one normal component
PathIsValid(path) ==
    /\ decode_utf8(percent_decode_str(path)).some
    /\ ~HasParentSegment(decode_utf8(percent_decode_str(path)).v)
    /\ NormalSegments(decode_utf8(percent_decode_str(path)).v) # {}

\* C12: a failing download request is answered with the status of its
\* failure: 400 for a path that is invalid or climbs out of the root, else
\* 404 for a file that does not exist, else 500 when the file cannot be
\* opened, else 416 for a Range header that is malformed or unsatisfiable,
\* else 500 when the seek fails
C12_DownloadErrorStatus ==
    (dreq.pc = "done" /\ DOMAIN dreq.users = {}) =>
        LET status == dreq.response.status
        IN  IF ~PathIsValid(dreq.path) THEN status = 400
            ELSE IF dreq.file.kind # "file" THEN status = 404
            ELSE IF ~dreq.file.open_ok THEN status = 500
            ELSE IF dreq.range.some /\ Unsatisfiable(dreq.range.v, dreq.file.size)
                 THEN status = 416
            ELSE IF dreq.range.some /\ ~dreq.file.seek_ok THEN status = 500
            ELSE status \in {200, 206}

(***************************************************************************)
(* catalog.rs: parse_filename_metadata                                     *)
(***************************************************************************)
MaxPieces == 3

\* u32::MAX in decimal
U32MaxDigits == <<"4", "2", "9", "4", "9", "6", "7", "2", "9", "5">>

HexChars ==
    { "0", "1", "2", "3", "4", "5", "6", "7", "8", "9",
      "a", "b", "c", "d", "e", "f", "A", "B", "C", "D", "E", "F" }

\* a character of [0-9a-f] under (?i)
IsHexChar(c) == c \in HexChars

WordChars == Range(Digits) \cup Range(LowerLetters) \cup Range(UpperLetters) \cup {"_"}

\* a character of \w
IsWordChar(c) == c \in WordChars

\* a to_upper_hex_chars that keeps the case of the input
to_hex_chars_as_is(raw) ==
    IF Len(raw) # 16 THEN None
    ELSE IF \E i \in 1..16 : ~IsHexChar(raw[i]) THEN None
    ELSE Some(raw)

\* to_upper_hex_chars
to_upper_hex_chars(raw) ==
    IF Len(raw) # 16 THEN None
    ELSE IF \E i \in 1..16 : ~IsHexChar(ToAsciiUppercase(raw[i])) THEN None
    ELSE Some([i \in 1..16 |-> ToAsciiUppercase(raw[i])])

\* TITLE_RE matches at position i
TitleMatchAt(name, i) ==
    /\ i + 15 <= Len(name)
    /\ \A k \in i..(i + 15) : IsHexChar(name[k])

\* the leftmost position from i on that TITLE_RE matches at, 0 when there
\* is none
RECURSIVE FirstTitleMatch(_, _)
FirstTitleMatch(name, i) ==
    IF i + 15 > Len(name) THEN 0
    ELSE IF TitleMatchAt(name, i) THEN i
    ELSE FirstTitleMatch(name, i + 1)

\* TITLE_RE.captures(name), group "title": the leftmost match
TitleCapture(name) ==
    LET first == FirstTitleMatch(name, 1)
    IN  IF first = 0 THEN None ELSE Some(SubSeq(name, first, first + 15))

\* the end of the longest run of digits that starts at position i (i - 1
\* when there is no digit at i)
RECURSIVE DigitsEnd(_, _)
DigitsEnd(name, i) ==
    IF i <= Len(name) /\ IsDigit(name[i]) THEN DigitsEnd(name, i + 1) ELSE i - 1

IsV(c) == c = "v" \/ c = "V"

\* \[v(?P<version>\d+)\] matched at position i: the digits, if it matches
BracketAt(name, i) ==
    IF /\ i + 3 <= Len(name)
       /\ name[i] = "["
       /\ IsV(name[i + 1])
       /\ DigitsEnd(name, i + 2) >= i + 2
       /\ DigitsEnd(name, i + 2) + 1 <= Len(name)
       /\ name[DigitsEnd(name, i + 2) + 1] = "]"
    THEN Some(SubSeq(name, i + 2, DigitsEnd(name, i + 2)))
    ELSE None

\* (?:^|[^\w])v(?P<version_2>\d+) matched at position i: the digits, if it
\* matches
BareAt(name, i) ==
    IF i = 1 /\ Len(name) >= 2 /\ IsV(name[1]) /\ DigitsEnd(name, 2) >= 2
    THEN Some(SubSeq(name, 2, DigitsEnd(name, 2)))
    ELSE IF /\ i + 2 <= Len(name)
            /\ ~IsWordChar(name[i])
            /\ IsV(name[i + 1])
            /\ DigitsEnd(name, i + 2) >= i + 2
    THEN Some(SubSeq(name, i + 2, DigitsEnd(name, i + 2)))
    ELSE None

\* the leftmost position from i on that an alternative of VERSION_RE
\* matches at, 0 when there is none
RECURSIVE FirstVersionMatch(_, _)
FirstVersionMatch(name, i) ==
    IF i > Len(name) THEN 0
    ELSE IF BracketAt(name, i).some \/ BareAt(name, i).some THEN i
    ELSE FirstVersionMatch(name, i + 1)

\* VERSION_RE.captures(name), group "version" or else "version_2": the
\* leftmost match, and at one position the bracketed alternative first
VersionCapture(name) ==
    LET first == FirstVersionMatch(name, 1)
    IN  IF first = 0 THEN None
        ELSE IF BracketAt(name, first).some THEN BracketAt(name, first)
        ELSE BareAt(name, first)

\* the value of a run of digits
RECURSIVE DigitsValue(_)
DigitsValue(raw) ==
    IF raw = <<>> THEN 0
    ELSE 10 * DigitsValue(SubSeq(raw, 1, Len(raw) - 1)) + DigitVal(raw[Len(raw)])

RECURSIVE StripZeros(_)
StripZeros(raw) ==
    IF Len(raw) > 1 /\ Head(raw) = "0" THEN StripZeros(Tail(raw)) ELSE raw

\* the number a run of digits denotes is above u32::MAX
ExceedsU32(raw) ==
    \/ Len(StripZeros(raw)) > 10
    \/ Len(StripZeros(raw)) = 10 /\ CmpStr(StripZeros(raw), U32MaxDigits) = Greater

\* raw.parse::<u32>().ok() of a run of digits
parse_u32(raw) == IF ExceedsU32(raw) THEN None ELSE Some(DigitsValue(raw))

parse_filename_metadata(name) ==
    [ title_id |-> IF TitleCapture(name).some
                   THEN to_upper_hex_chars(TitleCapture(name).v)
                   ELSE None,
      version |-> IF VersionCapture(name).some
                  THEN parse_u32(VersionCapture(name).v)
                  ELSE None ]

(***************************************************************************)
(* scanner.rs: the ContentFile of one walked file                          *)
(***************************************************************************)
\* the position of the last occurrence of c in s, 0 when there is none
LastIndexOf(s, c) ==
    IF \E i \in 1..Len(s) : s[i] = c
    THEN CHOOSE i \in 1..Len(s) : s[i] = c /\ \A j \in (i + 1)..Len(s) : s[j] # c
    ELSE 0

\* Path::file_name of the relative path of a walked file
file_name(path) == SubSeq(path, LastIndexOf(path, "/") + 1, Len(path))

\* Path::extension: the text after the last "." of the file name, unless
\* the only "." is at its start
extension(path) ==
    LET name == file_name(path)
    IN  IF LastIndexOf(name, ".") <= 1 THEN None
        ELSE Some(SubSeq(name, LastIndexOf(name, ".") + 1, Len(name)))

SupportedExtensions ==
    {<<"n", "s", "p">>, <<"x", "c", "i">>, <<"n", "s", "z">>, <<"x", "c", "z">>}

is_supported_content(path) ==
    /\ extension(path).some
    /\ [i \in 1..Len(extension(path).v) |-> ToAsciiLowercase(extension(path).v[i])]
          \in SupportedExtensions

\* Option::or
OptionOr(first, second) == IF first.some THEN first ELSE second

\* a record that takes the path-derived values first
ContentFileOfPathFirst(relative_path, size) ==
    LET name == file_name(relative_path)
        parsed_name == parse_filename_metadata(name)
        parsed_path == parse_filename_metadata(relative_path)
        title_id == OptionOr(parsed_path.title_id, parsed_name.title_id)
    IN  [ relative_path |-> relative_path,
          name          |-> name,
          size          |-> size,
          title_id      |-> title_id,
          version       |-> OptionOr(parsed_path.version, parsed_name.version),
          kind          |-> classify_title_id(title_id) ]

\* the body of the walk loop for a supported file: its ContentFile
ContentFileOf(relative_path, size) ==
    LET name == file_name(relative_path)
        parsed_name == parse_filename_metadata(name)
        parsed_path == parse_filename_metadata(relative_path)
        title_id == OptionOr(parsed_name.title_id, parsed_path.title_id)
    IN  [ relative_path |-> relative_path,
          name          |-> name,
          size          |-> size,
          title_id      |-> title_id,
          version       |-> OptionOr(parsed_name.version, parsed_path.version),
          kind          |-> classify_title_id(title_id) ]

\* the pieces file names and directory names are put together from: three
\* title ids (a base title in lower case, an update, an add-on), one more
\* hex digit, separators, and version tokens
IdBase == <<"0", "1", "0", "0", "a", "b", "c", "d", "e", "f", "1", "2", "3", "0", "0", "0">>
IdUpdate == <<"0", "1", "0", "0", "A", "B", "C", "D", "1", "2", "3", "4", "0", "8", "0", "0">>
IdDlc == <<"0", "1", "0", "0", "A", "B", "C", "D", "1", "2", "3", "4", "0", "0", "0", "f">>

Pieces ==
    { IdBase, IdUpdate, IdDlc,
      <<"f">>, <<"_">>, <<"/">>,
      <<"v", "1">>, <<"[", "V", "2", "]">>,
      <<"v", "4", "2", "9", "4", "9", "6", "7", "2", "9", "6">> }

RECURSIVE Flatten(_)
Flatten(pieces) == IF pieces = <<>> THEN <<>> ELSE Head(pieces) \o Flatten(Tail(pieces))

\* the relative paths of the walked files: pieces and an extension
WalkedPaths ==
    { Flatten(ps) \o ext :
         ps \in Strings(Pieces, MaxPieces),
         ext \in {<<".", "n", "s", "p">>, <<".", "X", "C", "I">>, <<".", "t", "x", "t">>} }

InitParse ==
    /\ ParkedScanner
    /\ IdleShop
    /\ path_req = [pc |-> "unused"]
    /\ dl = [pc |-> "unused"]
    /\ api = [pc |-> "unused"]
    /\ dreq = [pc |-> "unused"]
    /\ lib = [pc |-> "unused"]
    /\ meta \in {[pc |-> "walked", relative_path |-> p] : p \in WalkedPaths}

\* one pass of the walk loop over a regular file whose metadata can be read
ScanEntry ==
    /\ meta.pc = "walked"
    /\ meta' = [ pc |-> "done", relative_path |-> meta.relative_path,
                 parsed_name |-> parse_filename_metadata(file_name(meta.relative_path)),
                 parsed_path |-> parse_filename_metadata(meta.relative_path),
                 out |-> IF is_supported_content(meta.relative_path)
                         THEN <<ContentFileOf(meta.relative_path, 1)>>
                         ELSE <<>> ]
    /\ UNCHANGED <<scanVars, path_req, dl, api, dreq, lib, shop, sect, item, sess>>

NextParse == ScanEntry

SpecParse == InitParse /\ [][NextParse]_vars

(***************************************************************************)
(* Properties of metadata extraction                                       *)
(***************************************************************************)
UpperHexChars ==
    { "0", "1", "2", "3", "4", "5", "6", "7", "8", "9", "A", "B", "C", "D", "E", "F" }

\* the maximal stretches <<i, j>> of hexadecimal characters of s
HexRuns(s) ==
    {ij \in (1..Len(s)) \X (1..Len(s)) :
        /\ ij[1] <= ij[2]
        /\ \A k \in ij[1]..ij[2] : s[k] \in HexChars
        /\ (ij[1] = 1 \/ s[ij[1] - 1] \notin HexChars)
        /\ (ij[2] = Len(s) \/ s[ij[2] + 1] \notin HexChars)}

Runs16(s) == {ij \in HexRuns(s) : ij[2] - ij[1] + 1 = 16}

FirstOf(runs) == CHOOSE ij \in runs : \A other \in runs : ij[1] <= other[1]

Uppercased(text) == [i \in 1..Len(text) |-> ToAsciiUppercase(text[i])]

\* what the claim says the identifier of a text is
IdentifierOf(s) ==
    IF Runs16(s) = {} THEN None
    ELSE Some(Uppercased(SegText(s, FirstOf(Runs16(s)))))

\* C15: the identifier parse_filename_metadata returns is the first run of
\* exactly 16 hexadecimal characters of the input, uppercased; an input
\* without such a run has no identifier
C15_FirstSixteenHexRun ==
    meta.pc = "done" =>
        /\ meta.parsed_path.title_id = IdentifierOf(meta.relative_path)
        /\ meta.parsed_name.title_id = IdentifierOf(file_name(meta.relative_path))

\* the bracketed version tokens <<i, j>> of s: "[", "v" or "V", digits, "]"
BracketTokens(s) ==
    {ij \in (1..Len(s)) \X (1..Len(s)) :
        /\ ij[2] >= ij[1] + 3
        /\ s[ij[1]] = "["
        /\ s[ij[1] + 1] \in {"v", "V"}
        /\ \A k \in (ij[1] + 2)..(ij[2] - 1) : IsDigit(s[k])
        /\ s[ij[2]] = "]"}

\* the bare version tokens <<i, j>> of s: "v" or "V" at the start or after
\* a character that is no letter, digit or underscore, then digits up to
\* the first character that is no digit, outside every bracketed token
BareTokens(s) ==
    {ij \in (1..Len(s)) \X (1..Len(s)) :
        /\ ij[2] >= ij[1] + 1
        /\ s[ij[1]] \in {"v", "V"}
        /\ (ij[1] = 1 \/ ~IsWordChar(s[ij[1] - 1]))
        /\ \A k \in (ij[1] + 1)..ij[2] : IsDigit(s[k])
        /\ (ij[2] = Len(s) \/ ~IsDigit(s[ij[2] + 1]))
        /\ ~\E b \in BracketTokens(s) : b[1] < ij[1] /\ ij[2] < b[2]}

\* the number in the first bracketed token of s
BracketVersion(s) ==
    LET b == FirstOf(BracketTokens(s))
    IN  parse_u32(SubSeq(s, b[1] + 2, b[2] - 1))

\* C16: for an input that holds a bracketed "[vN]" token and a bare "vM"
\* token, parse_filename_metadata returns the N of the bracketed token,
\* whichever of the two comes first
C16_BracketedVersionWins ==
    (/\ meta.pc = "done"
     /\ BracketTokens(meta.relative_path) # {}
     /\ BareTokens(meta.relative_path) # {})
        => meta.parsed_path.version = BracketVersion(meta.relative_path)

\* the bare file name: the last segment of the relative path
BareName(path) == SegText(path, CHOOSE ij \in Segments(path) : ij[2] = Len(path))

\* C17: the record of a scanned file takes its identifier from the bare
\* file name when the file name yields one and else from the whole relative
\* path, and its version likewise and independently
C17_FilenameBeforePath ==
    (meta.pc = "done" /\ meta.out # <<>>) =>
        LET file == meta.out[1]
            of_name == parse_filename_metadata(BareName(meta.relative_path))
            of_path == parse_filename_metadata(meta.relative_path)
        IN  /\ file.name = BareName(meta.relative_path)
            /\ file.title_id = IF of_name.title_id.some THEN of_name.title_id
                               ELSE of_path.title_id
            /\ file.version = IF of_name.version.some THEN of_name.version
                              ELSE of_path.version

\* a file with a generic name below a directory that carries a base title
\* id and a version is classified as that base title, with that version
C17_Witness ==
    /\ meta.pc = "done"
    /\ meta.relative_path = IdBase \o <<"/">> \o <<"_">> \o <<".", "n", "s", "p">>
    /\ meta.parsed_name.title_id = None
    /\ meta.out # <<>>
    /\ meta.out[1].title_id = Some(Uppercased(IdBase))
    /\ meta.out[1].version = None
    /\ meta.out[1].kind = "Base"

\* C18: a record the scanner produces has kind Unknown exactly when it has
\* no title id; a title id is 16 uppercase hexadecimal characters, and the
\* kind is Base when it ends in 000, Update when it ends in 800, else Dlc
C18_KindFollowsTitleId ==
    (meta.pc = "done" /\ meta.out # <<>>) =>
        LET file == meta.out[1]
        IN  /\ file.kind = "Unknown" <=> ~file.title_id.some
            /\ file.title_id.some =>
                 /\ Len(file.title_id.v) = 16
                 /\ \A i \in 1..16 : file.title_id.v[i] \in UpperHexChars
                 /\ LET last3 == SubSeq(file.title_id.v, 14, 16)
                    IN  file.kind = IF last3 = <<"0", "0", "0">> THEN "Base"
                                    ELSE IF last3 = <<"8", "0", "0">> THEN "Update"
                                    ELSE "Dlc"

\* an add-on whose id ends in a lower-case hex letter
C18_Witness ==
    /\ meta.pc = "done"
    /\ meta.relative_path = IdDlc \o <<".", "n", "s", "p">>
    /\ meta.out # <<>>
    /\ meta.out[1].title_id = Some(Uppercased(IdDlc))
    /\ meta.out[1].title_id # Some(IdDlc)
    /\ meta.out[1].kind = "Dlc"

(***************************************************************************)
(* catalog.rs: Catalog::from_files and Catalog::versions on record lists   *)
(***************************************************************************)
MaxRecords == 3

\* a versions that looks the id up as it was given
versions_as_given(cat, title_id) ==
    IF title_id \in DOMAIN cat.titles
    THEN Some([ title_id |-> title_id,
                files |-> [k \in 1..Len(cat.titles[title_id]) |->
                              cat.files[cat.titles[title_id][k]]] ])
    ELSE None

\* Catalog::versions: every position stored under the key is a position of
\* files, so filter_map keeps them all
versions(cat, title_id) ==
    LET key == [i \in 1..Len(title_id) |-> ToAsciiUppercase(title_id[i])]
    IN  IF key \in DOMAIN cat.titles
        THEN Some([ title_id |-> key,
                    files |-> [k \in 1..Len(cat.titles[key]) |->
                                  cat.files[cat.titles[key][k]]] ])
        ELSE None

\* Ok(Json(versions))
VersionsResponse(group) ==
    [ status |-> 200, body |-> group, www_authenticate |-> None ]

\* a handler that answers an unknown id with an empty group
title_versions_empty_group(users, sessions, authorization, session_token, cat, title_id) ==
    LET authz == ensure_authorized(users, sessions, authorization, session_token)
        found == versions(cat, title_id)
    IN  [ response |->
            IF ~authz.ok THEN ApiErrorResponse(authz.err)
            ELSE IF ~found.some
                 THEN VersionsResponse([title_id |-> title_id, files |-> <<>>])
            ELSE VersionsResponse(found.v),
          sessions |-> authz.sessions ]

\* title_versions: catalog.versions(&title_id).ok_or(ApiError::TitleNotFound)?
title_versions(users, sessions, authorization, session_token, cat, title_id) ==
    LET authz == ensure_authorized(users, sessions, authorization, session_token)
        found == versions(cat, title_id)
    IN  [ response |->
            IF ~authz.ok THEN ApiErrorResponse(authz.err)
            ELSE IF ~found.some THEN ApiErrorResponse("TitleNotFound")
            ELSE VersionsResponse(found.v),
          sessions |-> authz.sessions ]

\* the title ids as the scanner writes them
TitleA == [i \in 1..16 |-> ToAsciiUppercase(IdBase[i])]
TitleB == IdUpdate

\* the records a list is drawn from: three title ids (one absent), two
\* versions (one absent) with two names, and a second size that tells
\* records with equal sort keys apart
Records ==
    { [ relative_path |-> ToString(vns[3]) \o <<"/">> \o NspName(vns[2]),
        name          |-> NspName(vns[2]),
        size          |-> vns[3],
        title_id      |-> t,
        version       |-> vns[1],
        kind          |-> classify_title_id(t) ] :
        t \in {None, Some(TitleA), Some(TitleB)},
        vns \in {<<None, "a", 1>>, <<Some(1), "a", 1>>, <<Some(1), "a", 2>>,
                 <<Some(1), "b", 1>>} }

\* the ids a client asks for: in lower case, in upper case, and unknown
QueryIds == {IdBase, TitleA, TitleB, IdDlc}

InitCatalog ==
    /\ ParkedScanner
    /\ IdleShop
    /\ path_req = [pc |-> "unused"]
    /\ dl = [pc |-> "unused"]
    /\ api = [pc |-> "unused"]
    /\ dreq = [pc |-> "unused"]
    /\ meta = [pc |-> "unused"]
    /\ lib \in {[pc |-> "scanned", files |-> fs] : fs \in Strings(Records, MaxRecords)}

\* Catalog::from_files(files)
FromFiles ==
    /\ lib.pc = "scanned"
    /\ lib' = [pc |-> "built", files |-> lib.files, catalog |-> from_files(lib.files)]
    /\ UNCHANGED <<scanVars, path_req, dl, api, dreq, meta, shop, sect, item, sess>>

\* catalog.versions(&title_id)
Versions ==
    /\ lib.pc = "built"
    /\ \E id \in QueryIds :
          lib' = [ pc |-> "queried", files |-> lib.files, catalog |-> lib.catalog,
                   title_id |-> id, versions |-> versions(lib.catalog, id) ]
    /\ UNCHANGED <<scanVars, path_req, dl, api, dreq, meta, shop, sect, item, sess>>

\* GET /api/title/{title_id}/versions, without session cookie or
\* Authorization header
TitleVersions ==
    /\ lib.pc = "built"
    /\ \E id \in QueryIds, users \in DownloadAuth :
          lib' = [ pc |-> "answered", files |-> lib.files, catalog |-> lib.catalog,
                   title_id |-> id, users |-> users,
                   response |-> title_versions(users, [t \in {} |-> <<>>], None, None,
                                               lib.catalog, id).response ]
    /\ UNCHANGED <<scanVars, path_req, dl, api, dreq, meta, shop, sect, item, sess>>

NextCatalog == FromFiles \/ Versions \/ TitleVersions

SpecCatalog == InitCatalog /\ [][NextCatalog]_vars

(***************************************************************************)
(* Properties of the Catalog                                               *)
(***************************************************************************)
\* an absent value is below every present one
OptionBelow(a, b, below(_, _)) ==
    IF ~a.some THEN b.some ELSE b.some /\ below(a.v, b.v)

StrBelow(a, b) == CmpStr(a, b) = Less

IntBelow(a, b) == a < b

\* a is strictly before b by (title_id, version, name)
KeyBelow(a, b) ==
    \/ OptionBelow(a.title_id, b.title_id, StrBelow)
    \/ /\ a.title_id = b.title_id
       /\ \/ OptionBelow(a.version, b.version, IntBelow)
          \/ a.version = b.version /\ StrBelow(a.name, b.name)

KeyEqual(a, b) ==
    a.title_id = b.title_id /\ a.version = b.version /\ a.name = b.name

Permutations(n) ==
    {f \in [1..n -> 1..n] : \A i, j \in 1..n : i # j => f[i] # f[j]}

\* C19: files() is the input reordered, ascending by (title_id, version,
\* name) with an absent title_id or version before every present one, and
\* records with equal keys in their input order; an empty input gives an
\* empty Catalog
C19_FilesSortedStable ==
    lib.pc \in {"built", "queried", "answered"} =>
        LET input == lib.files
            files == lib.catalog.files
            n == Len(input)
        IN  /\ Len(files) = n
            /\ \A i, j \in 1..n :
                  i < j => KeyBelow(files[i], files[j]) \/ KeyEqual(files[i], files[j])
            /\ \E f \in Permutations(n) :
                  /\ \A k \in 1..n : files[k] = input[f[k]]
                  /\ \A k, l \in 1..n :
                        (k < l /\ KeyEqual(files[k], files[l])) => f[k] < f[l]
            /\ n = 0 => lib.catalog = [files |-> <<>>, titles |-> EmptyTitles]

\* three records given in descending order, the two with equal keys told
\* apart by their size, come out ascending with those two in input order
C19_Witness ==
    /\ lib.pc = "built"
    /\ Len(lib.files) = 3
    /\ KeyBelow(lib.files[3], lib.files[1])
    /\ KeyEqual(lib.files[1], lib.files[2])
    /\ lib.files[1] # lib.files[2]
    /\ lib.catalog.files = <<lib.files[3], lib.files[1], lib.files[2]>>

\* C20: versions(id) returns the records of files() whose title_id is the
\* ASCII-uppercased id, all of them and no others, in the order they have
\* in files(); when there is none it returns nothing
C20_VersionsExactSubset ==
    lib.pc = "queried" =>
        LET key == Uppercased(lib.title_id)
            matching == SelectSeq(lib.catalog.files, LAMBDA f : f.title_id = Some(key))
        IN  IF matching = <<>> THEN lib.versions = None
            ELSE /\ lib.versions.some
                 /\ lib.versions.v.files = matching
                 /\ lib.versions.v.title_id = key

\* an id asked for in lower case finds its two records among three
C20_Witness ==
    /\ lib.pc = "queried"
    /\ lib.title_id = IdBase
    /\ lib.title_id # Uppercased(IdBase)
    /\ Len(lib.catalog.files) = 3
    /\ lib.versions.some
    /\ Len(lib.versions.v.files) = 2
    /\ lib.versions.v.files[1] # lib.versions.v.files[2]

\* no record of the catalog carries the id asked for, in any case of letters
Absent(cat, title_id) ==
    \A i \in 1..Len(cat.files) : cat.files[i].title_id # Some(Uppercased(title_id))

\* the answer to a versions request is not an error: a 200 whose group
\* holds no file
C21_AbsentIdIsEmptyNotError ==
    (lib.pc = "answered" /\ DOMAIN lib.users = {} /\ Absent(lib.catalog, lib.title_id))
        => /\ lib.response.status = 200
           /\ lib.response.body.files = <<>>

\* C21: for an id that no record of the catalog carries, Catalog::versions
\* returns None, the empty option, and fails in no way; the handler
\* title_versions turns that None into the error TitleNotFound, answered 404
\* with a JSON error body
C21_AbsentIdIsNoneThen404 ==
    /\ (lib.pc = "queried" /\ Absent(lib.catalog, lib.title_id))
          => lib.versions = None
    /\ (lib.pc = "answered" /\ DOMAIN lib.users = {} /\ Absent(lib.catalog, lib.title_id))
          => /\ lib.response.status = 404
             /\ lib.response.body = [error |-> "TitleNotFound"]
             /\ lib.response.www_authenticate = None

\* a catalog with records of another title is asked for an id it lacks
C21_Witness ==
    /\ lib.pc = "answered"
    /\ DOMAIN lib.users = {}
    /\ lib.title_id = IdDlc
    /\ \E i \in 1..Len(lib.catalog.files) : lib.catalog.files[i].title_id = Some(TitleA)
    /\ lib.response.status = 404

(***************************************************************************)
(* Further properties of the rescan                                        *)
(***************************************************************************)
\* C24: whenever the rescan task holds the write guard, the Catalog it is
\* about to assign (sorted files and identifier map) is already built; the
\* guard covers the assignment only
C24_BuiltBeforeWriteGuard ==
    lock.writer => scanner.built.some

\* the positions of files that carry the id, ascending
PositionsOf(files, id) ==
    LET at == {i \in 1..Len(files) : files[i].title_id = Some(id)}
    IN  CHOOSE seq \in [1..Cardinality(at) -> at] :
            \A i, j \in 1..Cardinality(at) : i < j => seq[i] < seq[j]

\* the identifier map says exactly where each id is in the file sequence
TitlesAgree(cat) ==
    /\ DOMAIN cat.titles =
          {cat.files[i].title_id.v : i \in {k \in 1..Len(cat.files) : cat.files[k].title_id.some}}
    /\ \A id \in DOMAIN cat.titles :
          /\ cat.titles[id] = PositionsOf(cat.files, id)
          /\ \A k \in 1..Len(cat.titles[id]) : cat.titles[id][k] \in 1..Len(cat.files)
          /\ \A k \in 1..Len(cat.titles[id]) :
                cat.files[cat.titles[id][k]].title_id = Some(id)

\* C26: the shared Catalog, whenever the write guard is not held, and every
\* Catalog a reader has copied under its read guard, has an identifier map
\* that agrees with its file sequence: each id maps to exactly the positions
\* of the records that carry it, ascending and in bounds, and records
\* without a title_id are under no key
C26_TitlesAgreeWithFiles ==
    /\ ~lock.writer => TitlesAgree(catalog)
    /\ \A r \in Readers : rpc[r] = "both" => TitlesAgree(Observed(r))

\* after a failed rescan and a swap, a reader holds a Catalog with a record
\* that has a title id and one that has none
C26_Witness ==
    /\ ~lock.writer
    /\ gen.swaps = 2
    /\ scanner.outcome = "ok"
    /\ \E r \in Readers :
          /\ rpc[r] = "both"
          /\ Observed(r) = catalog
          /\ DOMAIN seen[r].titles # {}
          /\ \E i \in 1..Len(seen[r].files) : ~seen[r].files[i].title_id.some

\* C28: a rescan is spawned only when the loop is back at its tick, which
\* it reaches only after the handle of the previous rescan has been
\* awaited: then no walk is in flight and no write guard is held; and the
\* fields of the shared Catalog are written by rescans in the order the
\* rescans were started
C28_OneRescanInFlight ==
    [][ /\ scanner'.ticks # scanner.ticks
            => /\ scanner.pc = "tick"
               /\ walk = NoWalk
               /\ ~lock.writer
               /\ scanner.built = None
               /\ scanner'.ticks = scanner.ticks + 1
        /\ gen'.files >= gen.files
        /\ gen'.titles >= gen.titles
        /\ gen'.swaps >= gen.swaps
        /\ gen'.files <= scanner'.ticks ]_vars

\* the second rescan runs after the first one has swapped its Catalog in
C28_Witness ==
    /\ scanner.ticks = 2
    /\ scanner.pc = "write_wait"
    /\ gen.swaps = 1
    /\ gen.files = 1

(***************************************************************************)
(* A further property of parse_range_header                                *)
(***************************************************************************)
\* C27: a range that parse_range_header accepts for a file of size S has
\* 0 <= start <= end < S, whether it came from "N-M", "N-" or "-N"; its
\* length is between 1 and S, and the Content-Length of the 206 is that
\* length
C27_AcceptedRangeWithinFile ==
    (/\ dl.pc = "done"
     /\ dl.file.kind = "file"
     /\ dl.range.some
     /\ to_str(dl.range.v).some
     /\ parse_range_header(dl.range.v, dl.file.size).ok)
        => LET S == dl.file.size
               range == parse_range_header(dl.range.v, S)
           IN  /\ 0 <= range.start
               /\ range.start <= range.end
               /\ range.end < S
               /\ ByteRangeLen(range) \in 1..S
               /\ (dl.response.ok /\ dl.response.status = 206)
                     => /\ dl.response.content_length = Some(ToString(ByteRangeLen(range)))
                        /\ Len(dl.response.body) = ByteRangeLen(range)
                        /\ Len(dl.response.body) <= S

\* a suffix longer than the file, a prefix form and a full form are accepted
C27_Witness ==
    /\ Served
    /\ dl.file.size = 3
    /\ dl.range \in { Some(BytesEq \o <<"-", "1", "1">>),
                       Some(BytesEq \o <<"1", "-">>),
                       Some(BytesEq \o <<"0", "-", "1">>) }
    /\ dl.response.status = 206

(***************************************************************************)
(* http/responses.rs: shop_game_url, derive_base_title_id,                 *)
(* to_shop_section_item                                                    *)
(***************************************************************************)
MaxLowDigits == 2

UpperHexDigits ==
    << "0", "1", "2", "3", "4", "5", "6", "7", "8", "9", "A", "B", "C", "D", "E", "F" >>

ApiGetGame == <<"/", "a", "p", "i", "/", "g", "e", "t", "_", "g", "a", "m", "e", "/">>

\* format!("/api/get_game/{file_id}#{filename}")
shop_game_url(file_id, filename) ==
    ApiGetGame \o ToString(file_id) \o <<"#">> \o filename

\* format!("/api/shop/icon/{title_id}.png")
shop_icon_url(title_id) ==
    <<"/", "a", "p", "i", "/", "s", "h", "o", "p", "/", "i", "c", "o", "n", "/">>
    \o title_id \o <<".", "p", "n", "g">>

\* a u64 below 16^13 is kept as two limbs: hi is worth 16^7 = 2^28
Limb == 268435456

RECURSIVE HexValue(_, _)
HexValue(digits, acc) ==
    IF digits = <<>> THEN acc
    ELSE HexValue(Tail(digits), acc * 16 + HexVal(Head(digits)))

\* u64::from_str_radix(high, 16) for 13 hex digits
from_str_radix(high) ==
    [hi |-> HexValue(SubSeq(high, 1, 6), 0), lo |-> HexValue(SubSeq(high, 7, 13), 0)]

\* u64::checked_sub(1)
checked_sub_one(value) ==
    IF value.lo > 0 THEN Some([hi |-> value.hi, lo |-> value.lo - 1])
    ELSE IF value.hi > 0 THEN Some([hi |-> value.hi - 1, lo |-> Limb - 1])
    ELSE None

\* {:0width$X} of one limb
RECURSIVE FormatHex(_, _)
FormatHex(value, width) ==
    IF width = 0 THEN <<>>
    ELSE FormatHex(value \div 16, width - 1) \o <<UpperHexDigits[(value % 16) + 1]>>

\* a Dlc arm that clears the last three digits as the Update arm does
DlcBaseMasked(normalized) ==
    Some(SubSeq(normalized, 1, 13) \o <<"0", "0", "0">>)

\* the ContentKind::Dlc arm of derive_base_title_id
DlcBase(normalized) ==
    LET base_high == checked_sub_one(from_str_radix(SubSeq(normalized, 1, 13)))
    IN  IF ~base_high.some THEN None
        ELSE Some(FormatHex(base_high.v.hi, 6) \o FormatHex(base_high.v.lo, 7)
                  \o <<"0", "0", "0">>)

derive_base_title_id(kind, title_id) ==
    IF ~title_id.some THEN None
    ELSE IF Len(title_id.v) # 16 \/ \E i \in 1..Len(title_id.v) : ~IsHex(title_id.v[i])
         THEN None
    ELSE LET normalized == [i \in 1..16 |-> ToAsciiUppercase(title_id.v[i])]
         IN  IF kind \in {"Base", "Unknown"} THEN Some(normalized)
             ELSE IF kind = "Update"
                  THEN Some(SubSeq(normalized, 1, 13) \o <<"0", "0", "0">>)
             ELSE DlcBase(normalized)

app_type_for_kind(kind) ==
    IF kind \in {"Base", "Unknown"} THEN "BASE"
    ELSE IF kind = "Update" THEN "UPDATE"
    ELSE "DLC"

\* title_map maps a base title id to the icon url TitleDb knows for it, if
\* any; category is empty and download_count is 0 in every item
to_shop_section_item(file_id, file, title_map) ==
    LET base_title_id == derive_base_title_id(file.kind, file.title_id)
        icon_url ==
            IF ~base_title_id.some THEN <<>>
            ELSE IF base_title_id.v \in DOMAIN title_map /\ title_map[base_title_id.v].some
                 THEN title_map[base_title_id.v].v
            ELSE shop_icon_url(base_title_id.v)
    IN  [ name        |-> file.name,
          title_name  |-> file.name,
          title_id    |-> base_title_id,
          app_id      |-> IF file.title_id.some THEN file.title_id.v ELSE file.name,
          app_version |-> IF file.version.some THEN ToString(file.version.v) ELSE <<"0">>,
          app_type    |-> app_type_for_kind(file.kind),
          icon_url    |-> icon_url,
          url         |-> shop_game_url(file_id, file.name),
          size        |-> file.size,
          file_id     |-> file_id,
          filename    |-> file.name ]

\* title ids as the scanner writes them (16 uppercase hex digits): six
\* leading digits, zeros, MaxLowDigits varying digits, and three last digits
\* that decide the kind
ItemHighs == { <<"0", "0", "0", "0", "0", "0">>,
               <<"0", "0", "0", "0", "0", "1">>,
               <<"0", "1", "0", "0", "A", "B">> }

ItemLows ==
    { [i \in 1..(7 - MaxLowDigits) |-> "0"] \o low :
         low \in [1..MaxLowDigits -> {"0", "1", "A", "F"}] }

ItemSuffixes == { <<"0", "0", "0">>, <<"8", "0", "0">>, <<"0", "0", "1">>, <<"F", "F", "F">> }

ItemTitleIds ==
    {None} \cup { Some(h \o l \o x) : h \in ItemHighs, l \in ItemLows, x \in ItemSuffixes }

ItemFiles ==
    { [ relative_path |-> NspName("g"),
        name          |-> NspName("g"),
        size          |-> 1,
        title_id      |-> t,
        version       |-> v,
        kind          |-> classify_title_id(t) ] :
        t \in ItemTitleIds, v \in {None, Some(65536)} }

InitItem ==
    /\ ParkedScanner
    /\ path_req = [pc |-> "unused"]
    /\ dl = [pc |-> "unused"]
    /\ api = [pc |-> "unused"]
    /\ dreq = [pc |-> "unused"]
    /\ meta = [pc |-> "unused"]
    /\ lib = [pc |-> "unused"]
    /\ shop = [pc |-> "unused"]
    /\ sect = [pc |-> "unused"]
    /\ sess = [pc |-> "unused"]
    /\ item \in { [pc |-> "file", file_id |-> 1, file |-> f, icon_known |-> k] :
                     f \in ItemFiles, k \in BOOLEAN }

\* to_shop_section_item(idx, file, title_map), with a title_map that holds
\* an icon for the base title or holds nothing
SectionItem ==
    /\ item.pc = "file"
    /\ LET base == derive_base_title_id(item.file.kind, item.file.title_id)
           title_map == IF item.icon_known /\ base.some
                        THEN [id \in {base.v} |-> Some(<<"i">>)]
                        ELSE [id \in {} |-> None]
       IN  item' = [ pc |-> "item", file_id |-> item.file_id, file |-> item.file,
                     icon_known |-> item.icon_known,
                     out |-> to_shop_section_item(item.file_id, item.file, title_map) ]
    /\ UNCHANGED <<scanVars, path_req, dl, api, dreq, meta, lib, shop, sect, sess>>

NextItem == SectionItem

SpecItem == InitItem /\ [][NextItem]_vars

(***************************************************************************)
(* Properties of shop section items                                        *)
(***************************************************************************)
\* the digits of the number one above the number the hex digits write (the
\* last digit that is not F goes up, the Fs after it become 0)
RECURSIVE HexSuccessor(_)
HexSuccessor(digits) ==
    IF digits = <<>> THEN <<>>
    ELSE LET last == digits[Len(digits)]
             front == SubSeq(digits, 1, Len(digits) - 1)
         IN  IF last = "F" THEN HexSuccessor(front) \o <<"0">>
             ELSE front \o <<UpperHexDigits[(CHOOSE i \in 1..16 : UpperHexDigits[i] = last) + 1]>>

AllZero(digits) == \A i \in 1..Len(digits) : digits[i] = "0"

\* C23: for a file with a title ID, the item's app_id is that title ID and
\* its title_id is the base title ID: the same ID for Base, the ID with its
\* last three digits replaced by 000 for Update, and for Dlc the 13 uppercase
\* hex digits of (first 13 digits as a number) - 1 followed by 000, or no
\* title_id when the first 13 digits are zero
C23_ItemBaseTitleId ==
    (item.pc = "item" /\ item.file.title_id.some) =>
        LET id == item.file.title_id.v
            high == SubSeq(id, 1, 13)
            out == item.out
        IN  /\ out.app_id = id
            /\ item.file.kind = "Base" => out.title_id = Some(id)
            /\ item.file.kind = "Update" => out.title_id = Some(high \o <<"0", "0", "0">>)
            /\ item.file.kind = "Dlc" =>
                 IF AllZero(high) THEN out.title_id = None
                 ELSE /\ out.title_id.some
                      /\ Len(out.title_id.v) = 16
                      /\ SubSeq(out.title_id.v, 14, 16) = <<"0", "0", "0">>
                      /\ \A i \in 1..13 : out.title_id.v[i] \in Range(UpperHexDigits)
                      /\ HexSuccessor(SubSeq(out.title_id.v, 1, 13)) = high

\* a DLC whose 13 leading digits end in zeros borrows across seven digits
C23_Witness ==
    /\ item.pc = "item"
    /\ item.file.kind = "Dlc"
    /\ item.file.title_id = Some(<<"0", "0", "0", "0", "0", "1", "0", "0", "0", "0", "0", "0", "0",
                                   "0", "0", "1">>)
    /\ item.out.app_id = item.file.title_id.v
    /\ item.out.title_id = Some(<<"0", "0", "0", "0", "0", "0", "F", "F", "F", "F", "F", "F", "F",
                                  "0", "0", "0">>)

(***************************************************************************)
(* http/handlers.rs: shop_root and download_by_id, next to the rescan      *)
(***************************************************************************)
\* build_shop_root_files: the position counted from one, and the name
build_shop_root_files(files) ==
    [i \in 1..Len(files) |-> [url |-> shop_game_url(i, files[i].name), size |-> files[i].size]]

\* shop_root, with the catalog files it reads under its read guard
shop_root(users, sessions, authorization, session_token, files) ==
    LET authz == ensure_authorized(users, sessions, authorization, session_token)
    IN  IF ~authz.ok THEN ApiErrorResponse(authz.err)
        ELSE [ status |-> 200,
               body |-> [success |-> "ok", files |-> build_shop_root_files(files)],
               www_authenticate |-> None ]

\* a lookup that takes the id as the position counted from zero
ResolveByPosition(files, id) ==
    IF id + 1 > Len(files) THEN [ok |-> FALSE, err |-> "NotFound"]
    ELSE [ok |-> TRUE, relative_path |-> files[id + 1].relative_path,
          filename |-> files[id + 1].name]

\* the block of download_by_id under the read guard: id.checked_sub(1),
\* files().get(index), and the clones of relative_path and name
ResolveById(files, id) ==
    IF id = 0 THEN [ok |-> FALSE, err |-> "NotFound"]
    ELSE IF id > Len(files) THEN [ok |-> FALSE, err |-> "NotFound"]
    ELSE [ok |-> TRUE, relative_path |-> files[id].relative_path,
          filename |-> files[id].name]

\* the rest of download_by_id: stream_with_range_support on the path that
\* was copied, and map_file_error on its failure
StreamResolved(file, range) ==
    LET streamed == stream_with_range_support(file, range)
    IN  IF ~streamed.ok THEN ApiErrorResponse(map_file_error(streamed.err))
        ELSE streamed

\* what root.join(relative_path) is when the download opens it: the library
\* file of that path (file i has i bytes), or nothing if it is gone by then
FileAt(relative_path, present) ==
    IF ~present THEN [kind |-> "missing"]
    ELSE [ kind |-> "file",
           size |-> (CHOOSE i \in FileIds : LibraryFile(i).relative_path = relative_path),
           open_ok |-> TRUE, seek_ok |-> TRUE ]

ShopRanges == { None, Some(BytesEq \o <<"0", "-", "0">>) }

NoUsers == [n \in {} |-> <<>>]

NoSessions == [t \in {} |-> <<>>]

InitShop ==
    /\ walk = NoWalk
    /\ catalog \in {from_files(scan_library_sync(d).files) :
                       d \in {x \in DiskStates : scan_library_sync(x).ok}}
    /\ gen = [files |-> 0, titles |-> 0, swaps |-> 0]
    /\ scanner = [pc |-> "tick", ticks |-> 0, files |-> <<>>, built |-> None,
                  before |-> catalog, outcome |-> "none"]
    /\ lock = [writer |-> FALSE, readers |-> {}]
    /\ rpc = [r \in Readers |-> "idle"]
    /\ seen = [r \in Readers |-> NoSeen]
    /\ path_req = [pc |-> "unused"]
    /\ dl = [pc |-> "unused"]
    /\ api = [pc |-> "unused"]
    /\ dreq = [pc |-> "unused"]
    /\ meta = [pc |-> "unused"]
    /\ lib = [pc |-> "unused"]
    /\ sect = [pc |-> "unused"]
    /\ item = [pc |-> "unused"]
    /\ sess = [pc |-> "unused"]
    /\ shop = [pc |-> "start"]

\* what scan_library can return, over every state of the library
ScanResults ==
    { scan_library(scan_library_sync(d), blocking_panic) :
         d \in DiskStates, blocking_panic \in BOOLEAN }

\* one whole rescan between two requests: tick, walk, and, if the walk
\* succeeded, the assignment under the write guard; the handle is joined
RescanTask ==
    /\ scanner.pc = "tick"
    /\ scanner.ticks < MaxTicks
    /\ CanWrite
    /\ \E result \in ScanResults :
          /\ catalog' = IF result.ok THEN from_files(result.files) ELSE catalog
          /\ gen' = IF result.ok
                    THEN [files |-> scanner.ticks + 1, titles |-> scanner.ticks + 1,
                          swaps |-> scanner.ticks + 1]
                    ELSE gen
          /\ scanner' = [scanner EXCEPT !.ticks = @ + 1, !.before = catalog,
                                        !.outcome = IF result.ok THEN "ok" ELSE "err"]
    /\ UNCHANGED <<walk, lock, rpc, seen, path_req, dl, api, dreq, meta, lib, sect, item, sess>>
    /\ UNCHANGED shop

\* GET / (shop root) with auth disabled: the listing of the files the
\* handler sees under its read guard
ShopRoot ==
    /\ shop.pc = "start"
    /\ CanRead
    /\ shop' = [ pc |-> "listed",
                 listed |-> catalog.files,
                 response |-> shop_root(NoUsers, NoSessions, None, None, catalog.files) ]
    /\ UNCHANGED <<scanVars, path_req, dl, api, dreq, meta, lib, sect, item, sess>>

\* a lookup in the files that the listing was made from
DownloadByIdResolveListed ==
    /\ shop.pc = "listed"
    /\ CanRead
    /\ \E id \in 0..(NumFiles + 1) :
          shop' = [ pc |-> "resolved", listed |-> shop.listed, response |-> shop.response,
                    id |-> id, current |-> catalog.files,
                    resolved |-> ResolveById(shop.listed, id) ]
    /\ UNCHANGED <<scanVars, path_req, dl, api, dreq, meta, lib, sect, item, sess>>

\* GET /api/get_game/{id}: the id is looked up under a read guard that is
\* dropped at the end of the block
DownloadByIdResolve ==
    /\ shop.pc = "listed"
    /\ CanRead
    /\ \E id \in 0..(NumFiles + 1) :
          shop' = [ pc |-> "resolved", listed |-> shop.listed, response |-> shop.response,
                    id |-> id, current |-> catalog.files,
                    resolved |-> ResolveById(catalog.files, id) ]
    /\ UNCHANGED <<scanVars, path_req, dl, api, dreq, meta, lib, sect, item, sess>>

\* the file is streamed from the path that was copied, or the lookup's
\* NotFound is answered
DownloadByIdStream ==
    /\ shop.pc = "resolved"
    /\ \E present \in BOOLEAN, range \in ShopRanges :
          shop' = [ pc |-> "served", listed |-> shop.listed, response |-> shop.response,
                    id |-> shop.id, current |-> shop.current, resolved |-> shop.resolved,
                    range |-> range,
                    file |-> IF shop.resolved.ok
                             THEN Some(FileAt(shop.resolved.relative_path, present))
                             ELSE None,
                    download |-> IF ~shop.resolved.ok
                                 THEN ApiErrorResponse(shop.resolved.err)
                                 ELSE StreamResolved(FileAt(shop.resolved.relative_path, present),
                                                     range) ]
    /\ UNCHANGED <<scanVars, path_req, dl, api, dreq, meta, lib, sect, item, sess>>

NextShop == RescanTask \/ ShopRoot \/ DownloadByIdResolve \/ DownloadByIdStream

SpecShop == InitShop /\ [][NextShop]_vars

(***************************************************************************)
(* Properties of the shop listing and the download by id                   *)
(***************************************************************************)
\* the answer to a request for the file of the given record, which is on
\* disk or gone
AnswersFor(record, range) ==
    { StreamResolved(FileAt(record.relative_path, present), range) : present \in BOOLEAN }

\* C22: while the catalog is the one the listing was made from, entry i of
\* the listing is "/api/get_game/i#<name of files()[i]>", a download of id i
\* streams the file at files()[i].relative_path with the handling of Range
\* of stream_with_range_support, and id 0 or an id above the number of
\* files is answered 404
C22_IdServesListedFile ==
    LET files == shop.listed
    IN  /\ shop.pc \in {"listed", "resolved", "served"} =>
             /\ shop.response.status = 200
             /\ Len(shop.response.body.files) = Len(files)
             /\ \A i \in 1..Len(files) :
                   /\ shop.response.body.files[i].url
                        = ApiGetGame \o ToString(i) \o <<"#">> \o files[i].name
                   /\ shop.response.body.files[i].size = files[i].size
        /\ (shop.pc = "served" /\ shop.current = shop.listed) =>
             IF shop.id \in 1..Len(files)
             THEN /\ shop.resolved.ok
                  /\ shop.resolved.relative_path = files[shop.id].relative_path
                  /\ shop.file.v.kind = "file" => shop.file.v.size = files[shop.id].size
                  /\ shop.download = StreamResolved(shop.file.v, shop.range)
                  /\ shop.download \in AnswersFor(files[shop.id], shop.range)
             ELSE /\ shop.download.status = 404
                  /\ shop.download.body = [error |-> "NotFound"]

\* the second of two listed files is asked for with a Range of one byte
C22_Witness ==
    /\ shop.pc = "served"
    /\ shop.current = shop.listed
    /\ Len(shop.listed) = 2
    /\ shop.id = 2
    /\ shop.range = Some(BytesEq \o <<"0", "-", "0">>)
    /\ shop.download.status = 206
    /\ shop.download.content_range = Some(BytesSpace \o <<"0", "-", "0", "/", "2">>)

\* the positions of the files that sort before the record
Earlier(files, record) ==
    {i \in 1..Len(files) : CompareFiles(files[i], record) = Less}

\* C29: the id is looked up in the catalog that is current when the
\* download runs: it serves that catalog's file at position id, or 404 past
\* its end.  For an id taken from an earlier listing: if by then files that
\* sort before the listed file were added or removed, the download is a 404
\* or serves another file; if the file is still at its position, the
\* download serves it
C29_IdResolvedAgainstCurrent ==
    shop.pc = "served" =>
        /\ IF shop.id \in 1..Len(shop.current)
           THEN /\ shop.resolved.ok
                /\ shop.resolved.relative_path = shop.current[shop.id].relative_path
                /\ shop.download \in AnswersFor(shop.current[shop.id], shop.range)
           ELSE shop.download.status = 404
        /\ shop.id \in 1..Len(shop.listed) =>
             LET issued == shop.listed[shop.id]
             IN  /\ Cardinality(Earlier(shop.current, issued))
                       # Cardinality(Earlier(shop.listed, issued))
                     => \/ shop.download.status = 404
                        \/ /\ shop.resolved.ok
                           /\ shop.resolved.relative_path # issued.relative_path
                 /\ (shop.id \in 1..Len(shop.current) /\ shop.current[shop.id] = issued)
                     => /\ shop.resolved.ok
                        /\ shop.resolved.relative_path = issued.relative_path

\* between the listing and the download a rescan dropped the first file:
\* the id issued for the first file now serves the second one
C29_Witness ==
    /\ shop.pc = "served"
    /\ Len(shop.listed) = 2
    /\ Len(shop.current) = 1
    /\ shop.id = 1
    /\ shop.current[1] = shop.listed[2]
    /\ shop.resolved.ok
    /\ shop.resolved.relative_path = shop.listed[2].relative_path
    /\ shop.download.status = 200

(***************************************************************************)
(* http/handlers.rs: shop_sections, which looks titles up in the TitleDb   *)
(* (titledb.rs) for the files it borrows from the catalog                  *)
(***************************************************************************)
\* the read-guard holder that is the shop_sections handler
SectionsReader == "shop_sections"

\* the ids resolve_title_map looks up: the base title ids of the files
LookupIds(files) ==
    { derive_base_title_id(files[i].kind, files[i].title_id).v :
         i \in {k \in 1..Len(files) :
                   derive_base_title_id(files[k].kind, files[k].title_id).some} }

InitSections ==
    /\ walk = NoWalk
    /\ catalog \in {from_files(scan_library_sync(d).files) :
                       d \in {x \in DiskStates : scan_library_sync(x).ok}}
    /\ gen = [files |-> 0, titles |-> 0, swaps |-> 0]
    /\ scanner = [pc |-> "tick", ticks |-> 0, files |-> <<>>, built |-> None,
                  before |-> catalog, outcome |-> "none"]
    /\ lock = [writer |-> FALSE, readers |-> {}]
    /\ rpc = [r \in Readers |-> "idle"]
    /\ seen = [r \in Readers |-> NoSeen]
    /\ path_req = [pc |-> "unused"]
    /\ dl = [pc |-> "unused"]
    /\ api = [pc |-> "unused"]
    /\ dreq = [pc |-> "unused"]
    /\ meta = [pc |-> "unused"]
    /\ lib = [pc |-> "unused"]
    /\ shop = [pc |-> "unused"]
    /\ item = [pc |-> "unused"]
    /\ sess = [pc |-> "unused"]
    /\ sect = [ handler |-> "idle", files |-> <<>>,
                tdb |-> [writer |-> FALSE, reader |-> FALSE], refresh |-> "idle" ]

SectionsUnchanged ==
    UNCHANGED <<walk, scanner, catalog, gen, rpc, seen,
                path_req, dl, api, dreq, meta, lib, shop, item, sess>>

\* shop_sections: state.catalog.read().await; the files are borrowed from
\* the guard, and resolve_title_map starts its lookups (none if no file has
\* a base title id)
SectionsAcquire ==
    /\ sect.handler = "idle"
    /\ CanRead
    /\ lock' = [lock EXCEPT !.readers = @ \cup {SectionsReader}]
    /\ sect' = [sect EXCEPT !.files = catalog.files,
                            !.handler = IF LookupIds(catalog.files) = {} THEN "build"
                                        ELSE "lookup_wait"]
    /\ SectionsUnchanged

\* TitleDb::lookup: self.inner.read().await completes (the lock is fair: not
\* while the refresh holds or waits for the write guard)
LookupAcquire ==
    /\ sect.handler = "lookup_wait"
    /\ ~sect.tdb.writer
    /\ sect.refresh # "write_wait"
    /\ sect' = [sect EXCEPT !.handler = "lookup", !.tdb.reader = TRUE]
    /\ UNCHANGED lock
    /\ SectionsUnchanged

\* the lookups return and drop their TitleDb guards; join_all completes
LookupRelease ==
    /\ sect.handler = "lookup"
    /\ sect' = [sect EXCEPT !.handler = "build", !.tdb.reader = FALSE]
    /\ UNCHANGED lock
    /\ SectionsUnchanged

\* the payload is built from the borrowed files and the handler returns: the
\* catalog read guard is dropped
SectionsRelease ==
    /\ sect.handler = "build"
    /\ lock' = [lock EXCEPT !.readers = @ \ {SectionsReader}]
    /\ sect' = [sect EXCEPT !.handler = "idle", !.files = <<>>]
    /\ SectionsUnchanged

\* TitleDb::refresh spawns do_refresh_without_lock, which fetches and merges
\* from the network without the lock
RefreshFetch ==
    /\ sect.refresh = "idle"
    /\ sect' = [sect EXCEPT !.refresh = "fetch"]
    /\ UNCHANGED lock
    /\ SectionsUnchanged

\* the fetch fails: the refresh ends with an error
RefreshFails ==
    /\ sect.refresh = "fetch"
    /\ sect' = [sect EXCEPT !.refresh = "idle"]
    /\ UNCHANGED lock
    /\ SectionsUnchanged

\* the fetch is done: inner.write() is called
RefreshWriteWait ==
    /\ sect.refresh = "fetch"
    /\ sect' = [sect EXCEPT !.refresh = "write_wait"]
    /\ UNCHANGED lock
    /\ SectionsUnchanged

\* inner.write().await completes; the map is replaced and save_cache writes
\* the cache file under the write guard
RefreshWriteAcquire ==
    /\ sect.refresh = "write_wait"
    /\ ~sect.tdb.reader
    /\ sect' = [sect EXCEPT !.refresh = "save", !.tdb.writer = TRUE]
    /\ UNCHANGED lock
    /\ SectionsUnchanged

\* save_cache returns and the write guard is dropped
RefreshWriteRelease ==
    /\ sect.refresh = "save"
    /\ sect' = [sect EXCEPT !.refresh = "idle", !.tdb.writer = FALSE]
    /\ UNCHANGED lock
    /\ SectionsUnchanged

NextSections ==
    \/ Tick
    \/ RescanFails
    \/ RescanPanics
    \/ RescanScanned
    \/ WriteAcquire
    \/ BuildCatalog
    \/ AssignFiles
    \/ AssignTitles
    \/ WriteRelease
    \/ JoinRescan
    \/ SectionsAcquire
    \/ LookupAcquire
    \/ LookupRelease
    \/ SectionsRelease
    \/ RefreshFetch
    \/ RefreshFails
    \/ RefreshWriteWait
    \/ RefreshWriteAcquire
    \/ RefreshWriteRelease

SpecSections == InitSections /\ [][NextSections]_vars

\* C25: a handler that is suspended in a wait other than the wait for the
\* catalog guard itself (here: shop_sections waiting for the TitleDb lock)
\* holds no read guard on the catalog, so that it never keeps a rescan that
\* is ready to swap waiting
C25_NoGuardAcrossWait ==
    sect.handler = "lookup_wait" => SectionsReader \notin lock.readers

(***************************************************************************)
(* http/state.rs: SessionStore; http/handlers.rs: login_post, logout       *)
(***************************************************************************)
MaxSessions == 2
MaxAdvances == 3

\* SessionStore::new(24): the time to live, in hours; the clock counts hours
TtlHours == 24

\* the requests that call SessionStore::get concurrently
Getters == {"g1", "g2"}

\* the tokens a cookie can carry: create hands out tokens that never repeat
\* and cannot be guessed (Uuid::new_v4), the n-th session gets token n; 0
\* is a token that create never made
CookieTokens == 0..sess.issued

\* the one configured user
SessionUsers == [n \in {UserU} |-> PasswordP]

\* a test that still accepts an entry at the instant it expires
SessionLiveInclusive(entry, now) == entry.expires >= now

\* entry.1 > Instant::now()
SessionLive(entry, now) == entry.expires > now

IdleGet == [pc |-> "idle"]

InitSession ==
    /\ ParkedScanner
    /\ path_req = [pc |-> "unused"]
    /\ dl = [pc |-> "unused"]
    /\ api = [pc |-> "unused"]
    /\ dreq = [pc |-> "unused"]
    /\ meta = [pc |-> "unused"]
    /\ lib = [pc |-> "unused"]
    /\ shop = [pc |-> "unused"]
    /\ sect = [pc |-> "unused"]
    /\ item = [pc |-> "unused"]
    /\ sess = [ inner |-> [t \in {} |-> <<>>],     \* the DashMap
                now |-> 0,                         \* Instant::now(), in hours
                issued |-> 0,                      \* how many tokens create has made
                created |-> [t \in {} |-> 0],      \* history: when each token was created
                removed |-> {},                    \* history: the tokens logout removed
                get |-> [g \in Getters |-> IdleGet] ]

SessionUnchanged ==
    UNCHANGED <<scanVars, path_req, dl, api, dreq, meta, lib, shop, sect, item>>

\* the model's clock goes in steps of half the time to live
ClockStep == TtlHours \div 2

\* time passes
AdvanceClock ==
    /\ sess.now < MaxAdvances * ClockStep
    /\ sess' = [sess EXCEPT !.now = @ + ClockStep]
    /\ SessionUnchanged

\* login_post with auth enabled: a wrong password creates nothing; the
\* right one calls sessions.create(username), which inserts a fresh token
\* that expires ttl from now
LoginPost ==
    /\ sess.issued < MaxSessions
    /\ \E password \in {PasswordP, PasswordS} :
          IF ~is_authorized(SessionUsers, UserU, password) THEN UNCHANGED sess
          ELSE LET token == sess.issued + 1
               IN  sess' = [sess EXCEPT
                      !.issued = token,
                      !.inner = [t \in DOMAIN sess.inner \cup {token} |->
                                    IF t = token
                                    THEN [username |-> UserU, expires |-> sess.now + TtlHours]
                                    ELSE sess.inner[t]],
                      !.created = [t \in DOMAIN sess.created \cup {token} |->
                                      IF t = token THEN sess.now ELSE sess.created[t]] ]
    /\ SessionUnchanged

\* logout with a session cookie: sessions.remove(token)
Logout ==
    /\ \E token \in CookieTokens :
          sess' = [sess EXCEPT
                     !.inner = [t \in DOMAIN sess.inner \ {token} |-> sess.inner[t]],
                     !.removed = @ \cup {token}]
    /\ SessionUnchanged

\* SessionStore::get up to its result: the entry is looked up and compared
\* with the clock; for an expired entry the reference is dropped and the
\* removal is still to come
GetLookup(g) ==
    /\ sess.get[g].pc = "idle"
    /\ \E token \in CookieTokens :
          sess' = [sess EXCEPT !.get[g] =
                     IF token \notin DOMAIN sess.inner
                     THEN [pc |-> "done", token |-> token, at |-> sess.now, result |-> None]
                     ELSE IF SessionLive(sess.inner[token], sess.now)
                     THEN [pc |-> "done", token |-> token, at |-> sess.now,
                           result |-> Some(sess.inner[token].username)]
                     ELSE [pc |-> "expired", token |-> token, at |-> sess.now,
                           result |-> None]]
    /\ SessionUnchanged

\* self.inner.remove(token) in the else branch of get
GetRemoveExpired(g) ==
    /\ sess.get[g].pc = "expired"
    /\ sess' = [sess EXCEPT
                  !.inner = [t \in DOMAIN sess.inner \ {sess.get[g].token} |-> sess.inner[t]],
                  !.get[g].pc = "done"]
    /\ SessionUnchanged

\* get has returned; ensure_authorized lets the request pass on Some
GetReturn(g) ==
    /\ sess.get[g].pc = "done"
    /\ sess' = [sess EXCEPT !.get[g] = IdleGet]
    /\ SessionUnchanged

NextSession ==
    \/ AdvanceClock
    \/ LoginPost
    \/ Logout
    \/ \E g \in Getters : GetLookup(g)
    \/ \E g \in Getters : GetRemoveExpired(g)
    \/ \E g \in Getters : GetReturn(g)

SpecSession == InitSession /\ [][NextSession]_vars

\* C30: a get(token) finds the user exactly when the token was created by a
\* login, less than 24 hours have passed since then, and no logout has
\* removed it before; a get that found the token expired has removed it
\* from the store when it returns; and this holds with creates, gets and
\* removes interleaved in any order
C30_SessionLifetime ==
    [][ \A g \in Getters :
          /\ (sess.get[g].pc = "idle" /\ sess'.get[g].pc # "idle") =>
                LET call == sess'.get[g]
                IN  /\ call.result.some <=>
                          /\ call.token \in DOMAIN sess.created
                          /\ sess.now < sess.created[call.token] + TtlHours
                          /\ call.token \notin sess.removed
                    /\ call.result.some => call.result.v = UserU
          /\ (sess'.get[g].pc = "done" /\ sess'.get[g].token \in DOMAIN sess'.created) =>
                LET call == sess'.get[g]
                IN  call.at >= sess'.created[call.token] + TtlHours
                       => /\ ~call.result.some
                          /\ call.token \notin DOMAIN sess'.inner ]_vars

\* a get at the very instant of expiry finds nothing and has removed the
\* token, while the other request found the same token live before
C30_Witness ==
    /\ sess.get["g1"].pc = "done"
    /\ sess.get["g1"].token \in DOMAIN sess.created
    /\ sess.get["g1"].at = sess.created[sess.get["g1"].token] + TtlHours
    /\ sess.get["g1"].result = None
    /\ sess.get["g1"].token \notin DOMAIN sess.inner
    /\ sess.get["g1"].token \notin sess.removed
    /\ sess.get["g2"].pc = "done"
    /\ sess.get["g2"].token = sess.get["g1"].token
    /\ sess.get["g2"].result = Some(UserU)

=============================================================================
